---- MODULE Spec2Model ----
(***************************************************************************)
(* Phantom-VRM: the TTS engine abstraction, its file cache and the HTTP    *)
(* routes that call it (src/tts/index.js, piper.js, voicevox.js, api.js,   *)
(* server.js).                                                             *)
(*                                                                         *)
(* JavaScript values are encoded as follows.                               *)
(*   - an object is a record; a property that is absent is absent from the *)
(*     record's DOMAIN; `undefined` where an object is expected is the     *)
(*     record Undefined, which has none of the properties the code reads   *)
(*     (so `config?.engine` is "absent" on it);                            *)
(*   - a string is a string; md5 is taken to be collision free, so the hex *)
(*     digest of a string is modelled by the string itself;                *)
(*   - a duration is a number of milliseconds that need not be whole: it   *)
(*     is a record [ms, frac3] standing for ms + frac3/3 (every value the  *)
(*     code computes is a multiple of 1/3 ms up to floating-point error).  *)
(***************************************************************************)
EXTENDS Integers, Sequences, FiniteSets, TLC

\* ------------------------------------------------------------------ bounds

\* HTTP requests received in one run.
MaxReq == 2

\* Request texts ("" is the empty text the routes refuse).
Texts == {"", "hi", "hello!!"}

\* Client identifiers of /api/speak requests.
Clients == {"c1"}

\* Sizes in bytes of the audio a backend may send.
BodySizes == {0, 32000}

\* ------------------------------------------------------- JavaScript helpers

Undefined == [undefined |-> TRUE]
EmptyObj == [k \in {} |-> ""]

Has(o, k) == k \in DOMAIN o

\* o.k is truthy (a non-empty string).
Truthy(o, k) == Has(o, k) /\ o[k] /= ""

\* o.k || d
OrElse(o, k, d) == IF Truthy(o, k) THEN o[k] ELSE d

\* o?.k || {}
SubObj(o, k) == IF Has(o, k) THEN o[k] ELSE EmptyObj

NullUrl == "null"
AbsentUrl == "undefined"

\* ------------------------------------------------------ duration estimator

charsPerSecond == 12

\* Math.max(floor, (len / cps) * 1000) as [ms, frac3]: the quotient is not
\* rounded.
MaxOfQuotient(floor, len, cps) ==
  LET n == len * 1000
  IN  IF n <= floor * cps
        THEN [ms |-> floor, frac3 |-> 0]
        ELSE [ms |-> n \div cps, frac3 |-> ((n % cps) * 3) \div cps]

\* estimateDuration without the Math.max(500, ...) around the quotient.
EstimateMsNoFloor(len) == MaxOfQuotient(0, len, charsPerSecond)

\* tts/index.js: estimateDuration on text.length.
EstimateMs(len) == MaxOfQuotient(500, len, charsPerSecond)

estimateDurationIndex(text) == EstimateMs(Len(text))

\* tts/piper.js with a slower speaking rate than the other copies.
estimateDurationPiperSlower(text) ==
  LET cps == 10 IN MaxOfQuotient(500, Len(text), cps)

\* The copies of the function in tts/piper.js, tts/voicevox.js, tts/api.js
\* and server.js, each with the constants its own file gives it.
estimateDurationPiper(text) ==
  LET cps == 12 IN MaxOfQuotient(500, Len(text), cps)

estimateDurationVoicevox(text) ==
  LET cps == 12 IN MaxOfQuotient(500, Len(text), cps)

estimateDurationApi(text) ==
  LET cps == 12 IN MaxOfQuotient(500, Len(text), cps)

estimateDurationServer(text) ==
  LET cps == 12 IN MaxOfQuotient(500, Len(text), cps)

\* ------------------------------------------------- constructing the adapters

\* What a constructor does when it reads a property of `undefined`.
TypeErrorThrown == [threw |-> "TypeError"]

\* The no-op adapter of tts/index.js and the private copy in tts/api.js.
createDummyTTSIndex == [name |-> "none", module |-> "index"]
createDummyTTSApi == [name |-> "none", module |-> "api"]

createOpenAITTS(config, env) ==
  IF config = Undefined THEN TypeErrorThrown ELSE
  LET apiKey == OrElse(config, "apiKey", OrElse(env, "OPENAI_API_KEY", ""))
  IN  IF apiKey = ""
        THEN createDummyTTSApi
        ELSE [name |-> "openai", apiKey |-> apiKey,
              model |-> OrElse(config, "model", "tts-1"),
              voice |-> OrElse(config, "voice", "alloy")]

createGoogleTTS(config, env) ==
  IF config = Undefined THEN TypeErrorThrown ELSE
  LET apiKey == OrElse(config, "apiKey", OrElse(env, "GOOGLE_API_KEY", ""))
  IN  IF apiKey = ""
        THEN createDummyTTSApi
        ELSE [name |-> "google", apiKey |-> apiKey,
              languageCode |-> OrElse(config, "languageCode", "en-US"),
              voiceName |-> OrElse(config, "voiceName", "")]

createAzureTTS(config, env) ==
  IF config = Undefined THEN TypeErrorThrown ELSE
  LET subscriptionKey ==
        OrElse(config, "subscriptionKey", OrElse(env, "AZURE_SPEECH_KEY", ""))
  IN  IF subscriptionKey = ""
        THEN createDummyTTSApi
        ELSE [name |-> "azure", subscriptionKey |-> subscriptionKey,
              voice |-> OrElse(config, "voice", "en-US-JennyNeural")]

createGenericAPITTS(config) ==
  IF config = Undefined THEN TypeErrorThrown ELSE
  IF ~Truthy(config, "url")
    THEN createDummyTTSApi
    ELSE [name |-> "generic-api", url |-> config.url,
          audioPath |-> OrElse(config, "audioPath", "audio"),
          audioFormat |-> OrElse(config, "outputFormat", "mp3")]

\* `which <command>` succeeds iff the command is on the PATH; a failure is
\* caught and leaves available = false.
createPiperTTS(config, onPath) ==
  IF config = Undefined THEN TypeErrorThrown ELSE
  LET command == OrElse(config, "command", "piper")
  IN  [name |-> "piper", command |-> command,
       model |-> OrElse(config, "model", "ja_JP-test-medium"),
       available |-> command \in onPath]

\* o.k || d for a number (0 is falsy); scales are in hundredths.
OrElseNum(o, k, d) == IF Has(o, k) /\ o[k] /= 0 THEN o[k] ELSE d

createVoicevoxTTS(config) ==
  IF config = Undefined THEN TypeErrorThrown ELSE
  [name |-> "voicevox",
   baseUrl |-> OrElse(config, "url", "http://localhost:50021"),
   speaker |-> OrElseNum(config, "speaker", 1),
   pitchScale |-> OrElseNum(config, "pitchScale", 0),
   speedScale |-> OrElseNum(config, "speedScale", 100),
   intonationScale |-> OrElseNum(config, "intonationScale", 100)]

createCustomTTS(config) ==
  IF config = Undefined THEN TypeErrorThrown ELSE
  IF ~Truthy(config, "command")
    THEN createDummyTTSIndex
    ELSE [name |-> "custom", command |-> config.command]

\* o.k with no `|| {}` behind it.
Prop(o, k) == IF Has(o, k) THEN o[k] ELSE Undefined

\* createTTSEngine passing config[tag] as it is, without the `|| {}`.
createTTSEngineNoDefault(config, env, onPath) ==
  LET engine == OrElse(config, "engine", "none")
  IN  CASE engine = "piper" -> createPiperTTS(Prop(config, "piper"), onPath)
        [] engine = "voicevox" -> createVoicevoxTTS(Prop(config, "voicevox"))
        [] engine = "openai" -> createOpenAITTS(Prop(config, "openai"), env)
        [] engine = "google" -> createGoogleTTS(Prop(config, "google"), env)
        [] engine = "azure" -> createAzureTTS(Prop(config, "azure"), env)
        [] engine = "api" -> createGenericAPITTS(Prop(config, "api"))
        [] engine = "custom" -> createCustomTTS(Prop(config, "custom"))
        [] OTHER -> createDummyTTSIndex

createTTSEngine(config, env, onPath) ==
  LET engine == OrElse(config, "engine", "none")
  IN  CASE engine = "piper" -> createPiperTTS(SubObj(config, "piper"), onPath)
        [] engine = "voicevox" -> createVoicevoxTTS(SubObj(config, "voicevox"))
        [] engine = "openai" -> createOpenAITTS(SubObj(config, "openai"), env)
        [] engine = "google" -> createGoogleTTS(SubObj(config, "google"), env)
        [] engine = "azure" -> createAzureTTS(SubObj(config, "azure"), env)
        [] engine = "api" -> createGenericAPITTS(SubObj(config, "api"))
        [] engine = "custom" -> createCustomTTS(SubObj(config, "custom"))
        [] engine = "none" -> createDummyTTSIndex
        [] OTHER -> createDummyTTSIndex

\* ------------------------------------------------------- the cache of files

\* A digest that leaves the text out of what is hashed.
HashWithoutText(eng, text) ==
  CASE eng.name \in {"openai", "azure"} -> eng.voice
    [] eng.name = "google" -> eng.languageCode \o eng.voiceName
    [] eng.name = "generic-api" -> eng.url
    [] OTHER -> ""

\* crypto.createHash('md5').update(...).digest('hex') of what each adapter
\* hashes (md5 taken as injective: the digest is the hashed string).
Hash(eng, text) ==
  CASE eng.name \in {"openai", "azure"} -> text \o eng.voice
    [] eng.name = "google" -> text \o eng.languageCode \o eng.voiceName
    [] eng.name = "generic-api" -> text \o eng.url
    [] OTHER -> text

Ext(eng) ==
  CASE eng.name \in {"openai", "azure", "google"} -> "mp3"
    [] eng.name = "generic-api" -> eng.audioFormat
    [] OTHER -> "wav"

\* The base name of outputFile = path.join(outputDir, `${hash}.${ext}`).
OutputFile(eng, text) == Hash(eng, text) \o "." \o Ext(eng)

AudioUrl(eng, text) == "/audio/" \o OutputFile(eng, text)

\* existsSync that finds no file.
existsSyncNever(fs, name) == FALSE

\* fs.existsSync(path) on the cache directory fs.
existsSync(fs, name) == name \in DOMAIN fs

\* Math.round((stats.size / 16000) * 1000), 0 when the file is missing.
getAudioDuration(fs, name) ==
  IF existsSync(fs, name)
    THEN [ms |-> (2 * fs[name].size + 16) \div 32, frac3 |-> 0]
    ELSE [ms |-> 0, frac3 |-> 0]

\* writeFileSync left out: nothing reaches the audio directory.
writeFileSyncSkipped(fs, name, size) == fs

\* fs.writeFileSync(name, buffer): the whole buffer, in one synchronous call.
writeFileSync(fs, name, size) ==
  [n \in DOMAIN fs \cup {name} |->
     IF n = name THEN [size |-> size, complete |-> TRUE] ELSE fs[n]]

\* ------------------------------------------------------------------ state

VARIABLES
  options,        \* the options createServer is called with (the loaded config)
  env,            \* process.env
  onPath,         \* the commands `which` finds
  ttsEngine,      \* server.js: let ttsEngine = null
  calls,          \* the HTTP requests received, in order of arrival
  files,          \* the audio directory: file name -> [size, complete]
  messageQueues,  \* server.js: messageQueues, clientId -> messages
  crashed,        \* an exception escaped an event callback: the process died
  lastResult,     \* history: text -> how the last settled synthesize ended
  configFile,     \* the contents of the configuration file on disk
  configModule,   \* config.js: configPath, config, the watcher, the callbacks
  loopbackOutput, \* server.js: let loopbackOutput = null
  server          \* the listening server and the process it runs in

vars ==
  <<options, env, onPath, ttsEngine, calls, files, messageQueues, crashed,
    lastResult, configFile, configModule, loopbackOutput, server>>

Null == [null |-> TRUE]
NoResult == [none |-> TRUE]

\* The server before app.listen has called back: nothing closed, no signal
\* received, the process running; fallback: the listen callback has caught
\* the error of loopbackOutput.start(); status: the last answer of
\* /api/status.
ServerInit ==
  [listening |-> FALSE, closed |-> FALSE, exited |-> FALSE,
   fallback |-> FALSE, signals |-> 0, answered |-> 0, status |-> NoResult]

\* o.k is true (a boolean property).
IsTrue(o, k) == Has(o, k) /\ o[k] = TRUE

\* config.js as it is loaded: let config = {}, configPath = null, no
\* callbacks, no watcher.
ConfigModuleInit ==
  [configPath |-> "", config |-> EmptyObj, watching |-> FALSE, callbacks |-> 0]

\* watchConfig(): nothing is watched unless loadConfig has set configPath
\* and the module's own config has hotReload.
watchConfig(m) ==
  IF m.configPath = "" \/ ~IsTrue(m.config, "hotReload")
    THEN m
    ELSE [m EXCEPT !.watching = TRUE]

\* onConfigChange(callback)
onConfigChange(m) == [m EXCEPT !.callbacks = @ + 1]
EmptyFs == [n \in {} |-> [size |-> 0, complete |-> TRUE]]

\* The tts sections a config file may hold.
TtsConfigs ==
  { EmptyObj,
    [engine |-> "none"],
    [engine |-> "festival"],
    [engine |-> "piper"],
    [engine |-> "piper", piper |-> [command |-> "piper-tts"]],
    [engine |-> "voicevox"],
    [engine |-> "voicevox", voicevox |-> [url |-> "http://vv:50021", pitchScale |-> 5]],
    [engine |-> "openai"],
    [engine |-> "openai", openai |-> [apiKey |-> "sk-1", voice |-> "nova"]],
    [engine |-> "google"],
    [engine |-> "google", google |-> [apiKey |-> "g-1", languageCode |-> "ja-JP"]],
    [engine |-> "azure"],
    [engine |-> "azure", azure |-> [subscriptionKey |-> "az-1"]],
    [engine |-> "api"],
    [engine |-> "api", api |-> [url |-> "http://tts.local/s", outputFormat |-> "wav"]],
    [engine |-> "api", api |-> [url |-> "tts.local"]],
    [engine |-> "custom"],
    [engine |-> "custom", custom |-> [command |-> "say {text} -o {output}"]] }

\* Strings `new URL(...)` accepts.
ParsableUrls == {"http://tts.local/s", "http://vv:50021", "http://localhost:50021"}

Envs ==
  { EmptyObj,
    [OPENAI_API_KEY |-> "sk-env", GOOGLE_API_KEY |-> "g-env",
     AZURE_SPEECH_KEY |-> "az-env"] }

Paths == { {}, {"piper"} }

\* A server start: the options, the environment and the audio directory.
Scenario(tts, e, p, cache) ==
  [options |-> [tts |-> tts], env |-> e, onPath |-> p, files |-> cache]

NoEnv == EmptyObj
Cached == [n \in {"hi.wav"} |-> [size |-> 32000, complete |-> TRUE]]

Scenarios ==
  { [options |-> EmptyObj, env |-> NoEnv, onPath |-> {}, files |-> EmptyFs],
    [options |-> EmptyObj, env |-> NoEnv, onPath |-> {"piper"},
     files |-> EmptyFs],
    Scenario([engine |-> "piper"], NoEnv, {}, Cached),
    Scenario([engine |-> "none"], NoEnv, {}, EmptyFs),
    Scenario([engine |-> "festival"], NoEnv, {}, EmptyFs),
    Scenario([engine |-> "voicevox"], NoEnv, {}, EmptyFs),
    Scenario([engine |-> "openai",
              openai |-> [apiKey |-> "sk-1", voice |-> "nova"]],
             NoEnv, {}, EmptyFs),
    Scenario([engine |-> "openai"], NoEnv, {}, EmptyFs),
    Scenario([engine |-> "google",
              google |-> [apiKey |-> "g-1", languageCode |-> "ja-JP"]],
             NoEnv, {}, EmptyFs),
    Scenario([engine |-> "google"], NoEnv, {}, EmptyFs),
    Scenario([engine |-> "azure", azure |-> [subscriptionKey |-> "az-1"]],
             NoEnv, {}, EmptyFs),
    Scenario([engine |-> "azure"], NoEnv, {}, EmptyFs),
    Scenario([engine |-> "api",
              api |-> [url |-> "http://tts.local/s", outputFormat |-> "wav"]],
             NoEnv, {}, EmptyFs),
    Scenario([engine |-> "api"], NoEnv, {}, EmptyFs),
    Scenario([engine |-> "custom",
              custom |-> [command |-> "say {text} -o {output}"]],
             NoEnv, {}, Cached),
    Scenario([engine |-> "custom"], NoEnv, {}, EmptyFs) }

Init ==
  /\ \E s \in Scenarios :
       /\ options = s.options
       /\ env = s.env
       /\ onPath = s.onPath
       /\ files = s.files
  /\ ttsEngine = Null
  /\ calls = <<>>
  /\ messageQueues = [c \in Clients |-> <<>>]
  /\ crashed = FALSE
  /\ lastResult = [t \in Texts |-> NoResult]
  /\ configFile = EmptyObj
  /\ configModule = ConfigModuleInit
  /\ loopbackOutput = Null
  /\ server = ServerInit

\* createServer: ttsEngine = createTTSEngine(config.tts || { engine: 'piper' }),
\* then, if (config.hotReload), watchConfig() and onConfigChange(...).
createServer ==
  /\ ttsEngine = Null
  /\ ttsEngine' =
       createTTSEngine(IF Has(options, "tts") THEN options.tts
                                              ELSE [engine |-> "piper"],
                       env, onPath)
  /\ configModule' = IF IsTrue(options, "hotReload")
                        THEN onConfigChange(watchConfig(configModule))
                        ELSE configModule
  /\ UNCHANGED <<loopbackOutput, server, options, configFile, env, onPath, calls, files,
                 messageQueues, crashed, lastResult>>

\* ------------------------------------------------------- the HTTP routes

\* A request as it arrives: nothing answered, synthesize not yet called.
NewCall(route, client, text) ==
  [route |-> route, client |-> client, text |-> text, eng |-> ttsEngine,
   pc |-> "new", io |-> 0, outcome |-> "none", result |-> NoResult,
   resp |-> NoResult, status |-> 0, ctype |-> "", body |-> 0,
   \* history: the last settled result for the text when the call began, the
   \* transport/protocol error the backend answered with, whether the call
   \* wrote to the audio directory
   prev |-> NoResult, fault |-> "", wrote |-> FALSE,
   \* the cache identifier computed for the text; voicevox: the answer to
   \* audio_query and the body sent to synthesis
   key |-> "", query |-> NoResult, sent |-> NoResult,
   \* the expression a /api/speak request carried; the pose, expression,
   \* preset or settings of the other control requests
   expression |-> "", value |-> ""]

\* messageQueues is a plain object, `const messageQueues = {}`, indexed by
\* whatever string the request carries as clientId.  Its own properties are
\* the keys of the function other than ProtoKey, each holding an array; a
\* plain client id that was never written reads undefined, which every
\* reader treats as the empty array, so such an id may start with <<>>.
\* The key "__proto__" is the accessor inherited from Object.prototype:
\* reading it gives the prototype of messageQueues and assigning an array
\* to it replaces that prototype.  ProtoKey is in the domain exactly when
\* the prototype has been replaced, and then holds the array that is the
\* prototype; otherwise the prototype is Object.prototype.
ProtoKey == "__proto__"

\* The element of an array that a client id names when it is an array
\* index ("0" is element 1 of the sequence), 0 for any other id.
ArrayIndex(clientId) == IF clientId = "0" THEN 1 ELSE 0

\* What messageQueues[clientId] reads: an array (an own property, or the
\* prototype once replaced), an object that is not an array
\* (Object.prototype, or an element of the prototype array found through
\* the prototype chain), or undefined.
QueueKind(q, clientId) ==
  IF clientId \in DOMAIN q THEN "array"
  ELSE IF clientId = ProtoKey THEN "object"
  ELSE IF /\ ProtoKey \in DOMAIN q
          /\ ArrayIndex(clientId) \in 1..Len(q[ProtoKey])
         THEN "object"
  ELSE "undefined"

\* The messages in messageQueues[clientId] || []: the array, or the one
\* message that was read in place of an array; Object.prototype holds none.
QueueOf(q, clientId) ==
  CASE QueueKind(q, clientId) = "array" -> q[clientId]
    [] QueueKind(q, clientId) = "undefined" -> <<>>
    [] OTHER -> IF clientId = ProtoKey THEN <<>>
                ELSE <<q[ProtoKey][ArrayIndex(clientId)]>>

\* messageQueues[clientId] = value.
SetQueue(q, clientId, value) ==
  [c \in DOMAIN q \cup {clientId} |-> IF c = clientId THEN value ELSE q[c]]

\* queueMessage throws a TypeError: messageQueues[clientId] is truthy and
\* has no push.
queueMessageThrows(q, clientId) == QueueKind(q, clientId) = "object"

\* queueMessage(clientId, message) (the timestamp is left out).
queueMessage(q, clientId, message) ==
  CASE QueueKind(q, clientId) = "array" ->
         [q EXCEPT ![clientId] = Append(@, message)]
    [] QueueKind(q, clientId) = "undefined" ->
         SetQueue(q, clientId, <<message>>)
    [] OTHER -> q

\* RouteResponse with a catch block that reports the failure.
RouteResponseSurfacesError(route, text, outcome, result) ==
  IF outcome = "resolved"
    THEN [status |-> 200, success |-> TRUE, audioUrl |-> result.audioUrl,
          duration |-> result.duration]
    ELSE [status |-> 500, error |-> "TTS error"]

\* What the route answers once `await ttsEngine.synthesize(...)` has settled:
\* res.json in the try block when it resolved, in the catch block otherwise.
RouteResponse(route, text, outcome, result) ==
  CASE route = "speak" /\ outcome = "resolved" ->
         [status |-> 200, success |-> TRUE, audioUrl |-> result.audioUrl]
    [] route = "tts" /\ outcome = "resolved" ->
         [status |-> 200, success |-> TRUE, audioUrl |-> result.audioUrl,
          duration |-> result.duration]
    [] OTHER ->
         [status |-> 200, success |-> TRUE,
          duration |-> estimateDurationServer(text)]

\* The speech message /api/speak queues, in the try or in the catch block.
SpeechMessage(text, outcome, result) ==
  IF outcome = "resolved"
    THEN [text |-> text, audioUrl |-> result.audioUrl,
          duration |-> result.duration]
    ELSE [text |-> text, duration |-> estimateDurationServer(text)]

\* The continuation of the route after the await, for call i of cs; q is the
\* queues as the route left them before the await.
Settle(cs, q, i, outcome, result) ==
  LET c == cs[i]
  IN  /\ calls' = [cs EXCEPT ![i] =
                     [c EXCEPT !.pc = "done", !.outcome = outcome,
                               !.result = result,
                               !.resp = RouteResponse(c.route, c.text,
                                                      outcome, result)]]
      /\ messageQueues' =
           IF c.route = "speak"
             THEN queueMessage(q, c.client,
                               SpeechMessage(c.text, outcome, result))
             ELSE q
      /\ lastResult' =
           [lastResult EXCEPT ![c.text] =
              [outcome |-> outcome,
               audioUrl |-> IF outcome = "resolved" THEN result.audioUrl
                                                     ELSE AbsentUrl,
               by |-> i]]

\* The call stays pending on an event.
Suspend(cs, q, i, pc, io) ==
  /\ calls' = [cs EXCEPT ![i] = [@ EXCEPT !.pc = pc, !.io = io]]
  /\ messageQueues' = q
  /\ UNCHANGED lastResult

\* An exception leaves an event callback of call i of cs: nothing catches
\* it, and the process ends.
Crash(cs, i) ==
  /\ crashed' = TRUE
  /\ calls' = [cs EXCEPT ![i] = [@ EXCEPT !.pc = "threw"]]
  /\ UNCHANGED <<messageQueues, lastResult>>

Degraded(text, estimate) == [audioUrl |-> NullUrl, duration |-> estimate]

\* What the piper process run by execSync may do: write the file and exit
\* with 0, exit with 0 without a file, or fail (a non-zero exit, or the 30 s
\* timeout).
PiperOutcomes == {"ok", "nofile", "fail"}

\* The audio directory after the process has run.
execPiper(fs, out, run, size) ==
  IF run = "ok" THEN writeFileSync(fs, out, size) ELSE fs

\* The synchronous part of adapter.synthesize(text, outputDir) for call i (the
\* last of cs), up to its first suspension, or through the rest of the route
\* when the promise is already settled.  q: the queues as the route left them.

\* synthesizeDummy with a no-op adapter that fails instead of estimating.
synthesizeDummyRejects(cs, q, i) ==
  /\ Settle(cs, q, i, "rejected", NoResult)
  /\ UNCHANGED <<files, crashed>>

\* createDummyTTS of tts/index.js and of tts/api.js.
synthesizeDummy(cs, q, i) ==
  LET c == cs[i]
  IN  /\ Settle(cs, q, i, "resolved",
                Degraded(c.text, IF c.eng.module = "api"
                                   THEN estimateDurationApi(c.text)
                                   ELSE estimateDurationIndex(c.text)))
      /\ UNCHANGED <<files, crashed>>

\* createCustomTTS: tts/index.js never requires 'path', so path.join(...) is a
\* ReferenceError before anything is executed; the async function turns it
\* into a rejection.
synthesizeCustom(cs, q, i) ==
  /\ Settle(cs, q, i, "rejected", NoResult)
  /\ UNCHANGED <<files, crashed>>

\* createPiperTTS.  run: what the process does, size: the bytes it writes.
synthesizePiper(cs, q, i, run, size) ==
  LET c == cs[i]
      out == OutputFile(c.eng, c.text)
      url == AudioUrl(c.eng, c.text)
      estimate == estimateDurationPiper(c.text)
  IN  IF existsSync(files, out)
        THEN /\ Settle(cs, q, i, "resolved",
                       [audioUrl |-> url, duration |-> estimate])
             /\ UNCHANGED <<files, crashed>>
      ELSE IF ~c.eng.available
        THEN /\ Settle(cs, q, i, "resolved", Degraded(c.text, estimate))
             /\ UNCHANGED <<files, crashed>>
      ELSE LET after == execPiper(files, out, run, size)
               ran == [cs EXCEPT ![i] =
                         [@ EXCEPT !.io = 1, !.wrote = after /= files]]
           IN  /\ files' = after
               \* execSync throws unless the process exits with 0
               /\ IF run /= "fail" /\ existsSync(after, out)
                    THEN Settle(ran, q, i, "resolved",
                                [audioUrl |-> url, duration |-> estimate])
                    ELSE Settle(ran, q, i, "resolved",
                                Degraded(c.text, estimate))
               /\ UNCHANGED crashed

\* What httpPost resolves with for the body of the audio_query response:
\* JSON.parse(body), or the body itself when it is not JSON.  The engine's own
\* scales differ from the configured ones.
queryResult(kind) ==
  CASE kind = "audio" ->
         [accent_phrases |-> "ap", pitchScale |-> 3, speedScale |-> 120,
          intonationScale |-> 90]
    [] kind = "nofield" -> [accent_phrases |-> "ap"]
    [] kind = "malformed" -> [raw |-> "not JSON"]
    [] OTHER -> [raw |-> ""]

\* queryResult.pitchScale = pitchScale; ... : an assignment to a property of
\* a string is ignored (the module is not in strict mode).
applyParams(eng, q) ==
  IF Has(q, "raw") THEN q
  ELSE [k \in DOMAIN q \cup {"pitchScale", "speedScale", "intonationScale"} |->
          CASE k = "pitchScale" -> eng.pitchScale
            [] k = "speedScale" -> eng.speedScale
            [] k = "intonationScale" -> eng.intonationScale
            [] OTHER -> q[k]]

\* createVoicevoxTTS: the cache check, then httpPost(queryUrl, {}).
synthesizeVoicevox(cs, q, i) ==
  LET c == cs[i]
      out == OutputFile(c.eng, c.text)
  IN  /\ IF existsSync(files, out)
           THEN Settle(cs, q, i, "resolved",
                       [audioUrl |-> AudioUrl(c.eng, c.text),
                        duration |-> estimateDurationVoicevox(c.text)])
           ELSE Suspend(cs, q, i, "wait_query", 1)
      /\ UNCHANGED <<files, crashed>>

\* createOpenAITTS, createGoogleTTS, createAzureTTS, createGenericAPITTS: the
\* cache check, then the request.
synthesizeHosted(cs, q, i) ==
  LET c == cs[i]
      out == OutputFile(c.eng, c.text)
  IN  /\ IF existsSync(files, out)
           THEN Settle(cs, q, i, "resolved",
                       [audioUrl |-> AudioUrl(c.eng, c.text),
                        duration |-> getAudioDuration(files, out)])
         ELSE IF c.eng.name = "generic-api" /\ c.eng.url \notin ParsableUrls
           THEN \* new URL(url) throws inside the async function
                Settle(cs, q, i, "rejected", NoResult)
           ELSE Suspend(cs, q, i, "wait", 1)
      /\ UNCHANGED <<files, crashed>>

synthesize(cs, q, i, run, size) ==
  CASE cs[i].eng.name = "none" -> synthesizeDummy(cs, q, i)
    [] cs[i].eng.name = "custom" -> synthesizeCustom(cs, q, i)
    [] cs[i].eng.name = "piper" -> synthesizePiper(cs, q, i, run, size)
    [] cs[i].eng.name = "voicevox" -> synthesizeVoicevox(cs, q, i)
    [] OTHER -> synthesizeHosted(cs, q, i)

\* Some call for the text has started synthesis and not settled.
InFlight(text) ==
  \E j \in 1..Len(calls) : calls[j].text = text /\ calls[j].pc /= "done"

\* /api/speak without `if (expression) queueMessage(...)` before the await.
queueExpressionSkipped(q, route, client, expression) == q

\* if (expression) queueMessage(clientId, { expression }), in /api/speak only.
queueExpression(q, route, client, expression) ==
  IF route = "speak" /\ expression /= ""
    THEN queueMessage(q, client, [expression |-> expression])
    ELSE q

\* POST /api/speak and POST /api/tts.
Request(route, client, text, expression, run, size) ==
  /\ ttsEngine /= Null
  /\ ~crashed
  /\ Len(calls) < MaxReq
  /\ LET c == [NewCall(route, IF route = "speak" THEN client ELSE "", text) EXCEPT
                 !.prev = IF InFlight(text) THEN NoResult ELSE lastResult[text],
                 !.key = IF text = "" \/ ttsEngine.name = "none"
                           THEN "" ELSE Hash(ttsEngine, text),
                 !.expression = IF route = "speak" /\ text /= ""
                                  THEN expression ELSE ""]
         cs == Append(calls, c)
         i == Len(cs)
         q == queueExpression(messageQueues, route, client, expression)
     IN  IF text = ""
           THEN /\ calls' = [cs EXCEPT ![i] =
                               [c EXCEPT !.pc = "done",
                                  !.resp = [status |-> 400,
                                            error |-> "text required"]]]
                /\ UNCHANGED <<files, messageQueues, crashed, lastResult>>
           ELSE /\ synthesize(cs, q, i, run, size)
  /\ UNCHANGED <<loopbackOutput, server, options, configFile, configModule, env, onPath, ttsEngine>>

\* ------------------------------------------- the asynchronous adapter steps

Pending(i, pcs) ==
  /\ ~crashed
  /\ i \in 1..Len(calls)
  /\ calls[i].pc \in pcs

\* Other calls whose write stream on the file is still open and writing.
OtherWriters(cs, i, out) ==
  {j \in 1..Len(cs) : /\ j /= i
                      /\ cs[j].pc \in {"piping", "piped"}
                      /\ cs[j].eng.name \in {"openai", "azure"}
                      /\ OutputFile(cs[j].eng, cs[j].text) = out}

\* fs.createWriteStream(outputFile) opens with flag 'w': the file is created,
\* or truncated when it exists.
createWriteStream(fs, name) ==
  [n \in DOMAIN fs \cup {name} |->
     IF n = name THEN [size |-> 0, complete |-> FALSE] ELSE fs[n]]

\* req.on('error', ...) before any response: the hosted adapters reject;
\* voicevox's catch block turns the rejection of httpPost / httpPostBinary
\* (an 'error', or its 'timeout' handler) into the degraded result.
ReqError(i) ==
  /\ Pending(i, {"wait", "wait_query", "wait_synth"})
  /\ IF calls[i].eng.name = "voicevox"
       THEN Settle(calls, messageQueues, i, "resolved",
                   Degraded(calls[i].text,
                            estimateDurationVoicevox(calls[i].text)))
       ELSE Settle(calls, messageQueues, i, "rejected", NoResult)
  /\ UNCHANGED <<loopbackOutput, server, options, configFile, configModule, env, onPath, ttsEngine, files, crashed>>

\* voicevox only: the socket timeout fires while the body is being received;
\* req.destroy() and reject, caught by synthesize.
ReqTimeout(i) ==
  /\ Pending(i, {"qbody", "sbody"})
  /\ Settle(calls, messageQueues, i, "resolved",
            Degraded(calls[i].text, estimateDurationVoicevox(calls[i].text)))
  /\ UNCHANGED <<loopbackOutput, server, options, configFile, configModule, env, onPath, ttsEngine, files, crashed>>

\* The response callback: the status line and headers have arrived.
\* openOk: whether the write stream's open succeeds; size: the body's length.
Response(i, status, ctype, openOk, size) ==
  /\ Pending(i, {"wait", "wait_query", "wait_synth"})
  /\ LET c == calls[i]
         name == c.eng.name
         out == OutputFile(c.eng, c.text)
         \* what the later callbacks of this call still read or ignore
         got == [calls EXCEPT ![i] =
                   [@ EXCEPT !.status = IF name \in {"generic-api", "voicevox"}
                                          THEN status ELSE @,
                             !.ctype = IF name = "generic-api"
                                         THEN ctype ELSE @,
                             !.body = IF name \in {"openai", "azure"}
                                           /\ status = 200 /\ openOk
                                        THEN size ELSE @,
                             !.fault = IF status /= 200 THEN "status" ELSE @,
                             !.wrote = @ \/ (name \in {"openai", "azure"}
                                             /\ status = 200 /\ openOk)]]
     IN  CASE name \in {"openai", "azure"} /\ status /= 200 ->
                /\ IF name = "azure"
                     THEN Settle(got, messageQueues, i, "rejected", NoResult)
                     ELSE Suspend(got, messageQueues, i, "errbody", c.io)
                /\ UNCHANGED files
           [] name \in {"openai", "azure"} /\ status = 200 ->
                IF openOk
                  THEN /\ files' = createWriteStream(files, out)
                       /\ Suspend(got, messageQueues, i,
                                  IF size = 0 THEN "piped" ELSE "piping", c.io)
                  ELSE \* fileStream.on('error')
                       /\ Settle(got, messageQueues, i, "rejected", NoResult)
                       /\ UNCHANGED files
           [] name = "google" ->
                /\ Suspend(got, messageQueues, i,
                           IF status /= 200 THEN "errbody" ELSE "body", c.io)
                /\ UNCHANGED files
           [] name = "generic-api" ->
                \* the status code is not looked at
                /\ Suspend(got, messageQueues, i, "body", c.io)
                /\ UNCHANGED files
           [] name = "voicevox" ->
                \* httpPost and httpPostBinary do not look at the status code
                /\ Suspend(got, messageQueues, i,
                           IF c.pc = "wait_query" THEN "qbody" ELSE "sbody",
                           c.io)
                /\ UNCHANGED files
  /\ UNCHANGED <<loopbackOutput, server, options, configFile, configModule, env, onPath, ttsEngine, crashed>>

\* What a response body may hold: a JSON object with the audio where it is
\* expected, a JSON object without it, text that is not JSON, nothing.
BodyKinds == {"audio", "nofield", "malformed", "empty"}

\* res.on('end'): the whole body has arrived.  size: the length of the audio
\* in it; fsOk: whether writeFileSync succeeds (it throws otherwise).
ResEnd(i, kind, size, fsOk) ==
  /\ Pending(i, {"errbody", "body", "qbody", "sbody"})
  /\ LET c == calls[i]
         name == c.eng.name
         out == OutputFile(c.eng, c.text)
         url == AudioUrl(c.eng, c.text)
         written == writeFileSync(files, out, size)
         parses == c.pc = "qbody" \/ name = "google"
                   \/ (name = "generic-api" /\ c.ctype = "json")
         unusable == IF c.pc = "qbody" THEN kind \in {"malformed", "empty"}
                                       ELSE kind /= "audio"
         bad == [calls EXCEPT ![i] =
                   [@ EXCEPT !.fault = IF parses /\ unusable /\ @ = ""
                                         THEN "body" ELSE @]]
         asked == [bad EXCEPT ![i] =
                     [@ EXCEPT !.query = [status |-> c.status,
                                          result |-> queryResult(kind)],
                               !.sent = applyParams(c.eng, queryResult(kind))]]
         good == [bad EXCEPT ![i] = [@ EXCEPT !.wrote = TRUE, !.body = size]]
     IN  CASE c.pc = "errbody" ->
                \* reject(new Error(`... API error: ${res.statusCode} ...`))
                /\ Settle(bad, messageQueues, i, "rejected", NoResult)
                /\ UNCHANGED <<files, crashed>>
           [] c.pc = "body" /\ name = "google" ->
                \* JSON.parse, Buffer.from(response.audioContent, 'base64')
                \* and writeFileSync run in the callback with no try around
                IF kind = "audio" /\ fsOk
                  THEN /\ files' = written
                       /\ Settle(good, messageQueues, i, "resolved",
                                 [audioUrl |-> url,
                                  duration |-> getAudioDuration(written, out)])
                       /\ UNCHANGED crashed
                  ELSE /\ Crash(bad, i)
                       /\ UNCHANGED files
           [] c.pc = "body" /\ name = "generic-api" /\ c.ctype = "json" ->
                IF kind = "audio" /\ fsOk
                  THEN /\ files' = written
                       /\ Settle(good, messageQueues, i, "resolved",
                                 [audioUrl |-> url,
                                  duration |-> getAudioDuration(written, out)])
                       /\ UNCHANGED crashed
                  ELSE \* 'Audio data not found', or the catch block
                       /\ Settle(bad, messageQueues, i, "rejected", NoResult)
                       /\ UNCHANGED <<files, crashed>>
           [] c.pc = "body" /\ name = "generic-api" /\ c.ctype /= "json" ->
                \* "Direct audio response": the body is written as it is
                IF fsOk
                  THEN /\ files' = written
                       /\ Settle(good, messageQueues, i, "resolved",
                                 [audioUrl |-> url,
                                  duration |-> getAudioDuration(written, out)])
                       /\ UNCHANGED crashed
                  ELSE /\ Crash(bad, i)
                       /\ UNCHANGED files
           [] c.pc = "qbody" ->
                \* resolve(JSON.parse(body)), or resolve(body) when that throws
                IF kind = "empty"
                  THEN \* '' is falsy: throw new Error('audio_query failed')
                       /\ Settle(bad, messageQueues, i, "resolved",
                                 Degraded(c.text,
                                          estimateDurationVoicevox(c.text)))
                       /\ UNCHANGED <<files, crashed>>
                  ELSE \* httpPostBinary(synthUrl, queryResult)
                       /\ Suspend(asked, messageQueues, i, "wait_synth",
                                  c.io + 1)
                       /\ UNCHANGED <<files, crashed>>
           [] c.pc = "sbody" ->
                \* resolve(Buffer.concat(chunks)): a Buffer is always truthy
                IF fsOk
                  THEN /\ files' = written
                       /\ Settle(good, messageQueues, i, "resolved",
                                 [audioUrl |-> url,
                                  duration |-> estimateDurationVoicevox(c.text)])
                       /\ UNCHANGED crashed
                  ELSE /\ Settle(bad, messageQueues, i, "resolved",
                                 Degraded(c.text,
                                          estimateDurationVoicevox(c.text)))
                       /\ UNCHANGED <<files, crashed>>
  /\ UNCHANGED <<loopbackOutput, server, options, configFile, configModule, env, onPath, ttsEngine>>

\* The connection closes before the body is complete.  The response emits
\* 'aborted'/'close' but never 'end', the request emits no 'error' once a
\* response exists, and pipe() does not end its destination: no listener the
\* adapter registered runs, and the promise is never settled.
ResAborted(i) ==
  /\ Pending(i, {"errbody", "body", "qbody", "sbody", "piping", "piped"})
  /\ calls' = [calls EXCEPT ![i] = [@ EXCEPT !.pc = "stalled"]]
  /\ UNCHANGED <<loopbackOutput, server, options, configFile, configModule, env, onPath, ttsEngine, files, messageQueues,
                 crashed, lastResult>>

\* res.pipe(fileStream): the body's bytes are written to the open file.
PipeChunk(i) ==
  /\ Pending(i, {"piping"})
  /\ LET c == calls[i]
         out == OutputFile(c.eng, c.text)
     IN  /\ files' = [files EXCEPT ![out] =
                        [size |-> IF @.size > c.body THEN @.size ELSE c.body,
                         complete |-> FALSE]]
         /\ calls' = [calls EXCEPT ![i] = [@ EXCEPT !.pc = "piped"]]
  /\ UNCHANGED <<loopbackOutput, server, options, configFile, configModule, env, onPath, ttsEngine, messageQueues, crashed,
                 lastResult>>

\* fileStream.on('finish'): close, and resolve with the file's duration.
PipeFinish(i) ==
  /\ Pending(i, {"piped"})
  /\ LET c == calls[i]
         out == OutputFile(c.eng, c.text)
         closed == [files EXCEPT ![out] =
                      [@ EXCEPT !.complete = OtherWriters(calls, i, out) = {}]]
     IN  /\ files' = closed
         /\ Settle(calls, messageQueues, i, "resolved",
                   [audioUrl |-> AudioUrl(c.eng, c.text),
                    duration |-> getAudioDuration(closed, out)])
  /\ UNCHANGED <<loopbackOutput, server, options, configFile, configModule, env, onPath, ttsEngine, crashed>>

\* fileStream.on('error'): a write fails; the file is left as it is.
PipeError(i) ==
  /\ Pending(i, {"piping", "piped"})
  /\ Settle(calls, messageQueues, i, "rejected", NoResult)
  /\ UNCHANGED <<loopbackOutput, server, options, configFile, configModule, env, onPath, ttsEngine, files, crashed>>

Next ==
  \/ createServer
  \/ \E route \in {"speak", "tts"}, client \in Clients, text \in Texts,
        expression \in {"", "happy"}, run \in PiperOutcomes, size \in BodySizes :
       Request(route, client, text, expression, run, size)
  \/ \E i \in 1..MaxReq : ReqError(i)
  \/ \E i \in 1..MaxReq : ReqTimeout(i)
  \/ \E i \in 1..MaxReq, status \in {200, 500}, ctype \in {"json", "audio"},
        openOk \in BOOLEAN, size \in BodySizes :
       Response(i, status, ctype, openOk, size)
  \/ \E i \in 1..MaxReq, kind \in BodyKinds, size \in BodySizes,
        fsOk \in BOOLEAN :
       ResEnd(i, kind, size, fsOk)
  \/ \E i \in 1..MaxReq : ResAborted(i)
  \/ \E i \in 1..MaxReq : PipeChunk(i)
  \/ \E i \in 1..MaxReq : PipeFinish(i)
  \/ \E i \in 1..MaxReq : PipeError(i)

Spec == Init /\ [][Next]_vars

\* createTTSEngine on its own: options is the value it is called with.
FactoryInputs == {Undefined} \cup TtsConfigs

InitFactory ==
  /\ options \in FactoryInputs
  /\ env \in Envs
  /\ onPath \in Paths
  /\ ttsEngine = Null
  /\ calls = <<>>
  /\ files = EmptyFs
  /\ messageQueues = [c \in Clients |-> <<>>]
  /\ crashed = FALSE
  /\ lastResult = [t \in Texts |-> NoResult]
  /\ configFile = EmptyObj
  /\ configModule = ConfigModuleInit
  /\ loopbackOutput = Null
  /\ server = ServerInit

callFactory ==
  /\ ttsEngine = Null
  /\ ttsEngine' = createTTSEngine(options, env, onPath)
  /\ UNCHANGED <<loopbackOutput, server, options, configFile, configModule, env, onPath, calls, files, messageQueues, crashed,
                 lastResult>>

SpecFactory == InitFactory /\ [][callFactory]_vars

\* estimateDuration on its own: calls is the list of the calls made to the
\* copies of the function, each with the text it was given and what it
\* returned.

\* The lengths of the texts estimated (every length up to MaxLen, and a long
\* text), and the number of calls in one run.
MaxLen == 24
LongLen == 120
MaxEstimates == 2

RECURSIVE TextOfLen(_)
TextOfLen(n) ==
  IF n = 0 THEN ""
  ELSE LET half == TextOfLen(n \div 2)
       IN  half \o half \o (IF n % 2 = 1 THEN "a" ELSE "")

Estimators == {"index", "piper", "voicevox", "api", "server"}

InitEstimate ==
  /\ options = EmptyObj
  /\ env = EmptyObj
  /\ onPath = {}
  /\ ttsEngine = Null
  /\ calls = <<>>
  /\ files = EmptyFs
  /\ messageQueues = [c \in Clients |-> <<>>]
  /\ crashed = FALSE
  /\ lastResult = [t \in Texts |-> NoResult]
  /\ configFile = EmptyObj
  /\ configModule = ConfigModuleInit
  /\ loopbackOutput = Null
  /\ server = ServerInit

callEstimate(fn, text) ==
  /\ Len(calls) < MaxEstimates
  /\ calls' = Append(calls,
       [fn |-> fn, text |-> text,
        duration |-> CASE fn = "index" -> estimateDurationIndex(text)
                       [] fn = "piper" -> estimateDurationPiper(text)
                       [] fn = "voicevox" -> estimateDurationVoicevox(text)
                       [] fn = "api" -> estimateDurationApi(text)
                       [] fn = "server" -> estimateDurationServer(text)])
  /\ UNCHANGED <<loopbackOutput, server, options, configFile, configModule, env, onPath, ttsEngine, files, messageQueues,
                 crashed, lastResult>>

NextEstimate ==
  \E fn \in Estimators, n \in 0..MaxLen \cup {LongLen} :
    callEstimate(fn, TextOfLen(n))

SpecEstimate == InitEstimate /\ [][NextEstimate]_vars

\* createGenericAPITTS on its own, with the contents of the response and of
\* the file written: a call is one synthesize with the response it received.
\*   - a JSON value is [t |-> "obj", v |-> record], [t |-> "str", v |-> string]
\*     or JUndefined; a base64 string is the sequence of its symbols, 0..63
\*     for the alphabet and Pad for '=';
\*   - a file is [size, complete, data].

\* The calls in one run, and the bytes and the longest audio a backend sends.
MaxSynth == 1
MaxBytes == 3
Bytes == {0, 65, 255}

Pad == 64
JUndefined == [t |-> "undefined"]
JStr(x) == [t |-> "str", v |-> x]
JObj(r) == [t |-> "obj", v |-> r]

ByteSeqs == UNION {[1..n -> Bytes] : n \in 0..MaxBytes}

\* The base64 text of a byte sequence, as a backend produces it.
RECURSIVE base64Encode(_)
base64Encode(b) ==
  CASE Len(b) = 0 -> <<>>
    [] Len(b) = 1 -> <<b[1] \div 4, (b[1] % 4) * 16, Pad, Pad>>
    [] Len(b) = 2 -> <<b[1] \div 4, (b[1] % 4) * 16 + b[2] \div 16,
                       (b[2] % 16) * 4, Pad>>
    [] OTHER -> <<b[1] \div 4, (b[1] % 4) * 16 + b[2] \div 16,
                  (b[2] % 16) * 4 + b[3] \div 64, b[3] % 64>>
                \o base64Encode(SubSeq(b, 4, Len(b)))

\* The symbols before the first '='.
RECURSIVE beforePad(_)
beforePad(x) ==
  IF x = <<>> \/ Head(x) = Pad THEN <<>>
  ELSE <<Head(x)>> \o beforePad(Tail(x))

RECURSIVE decodeSymbols(_)
decodeSymbols(x) ==
  CASE Len(x) <= 1 -> <<>>
    [] Len(x) = 2 -> <<x[1] * 4 + x[2] \div 16>>
    [] Len(x) = 3 -> <<x[1] * 4 + x[2] \div 16,
                       (x[2] % 16) * 16 + x[3] \div 4>>
    [] OTHER -> <<x[1] * 4 + x[2] \div 16,
                  (x[2] % 16) * 16 + x[3] \div 4,
                  (x[3] % 4) * 64 + x[4]>>
                \o decodeSymbols(SubSeq(x, 5, Len(x)))

\* Buffer.from without the 'base64' argument: the text's own characters.
BufferFromText(x) == x

\* Buffer.from(audioData, 'base64')
BufferFromBase64(x) == decodeSymbols(beforePad(x))

\* audioPathInResponse.split('.') for the paths configured here.
splitDots(path) ==
  CASE path = "audio" -> <<"audio">>
    [] path = "data.audio" -> <<"data", "audio">>
    [] OTHER -> <<path>>

\* obj?.[key]
optionalGet(obj, key) ==
  IF obj.t = "obj" /\ key \in DOMAIN obj.v THEN obj.v[key] ELSE JUndefined

\* keys.reduce((obj, key) => obj?.[key], json)
RECURSIVE reducePath(_, _)
reducePath(json, keys) ==
  IF keys = <<>> THEN json
  ELSE reducePath(optionalGet(json, Head(keys)), Tail(keys))

\* The JSON object that holds x under the keys.
RECURSIVE wrapAt(_, _)
wrapAt(keys, x) ==
  IF keys = <<>> THEN x
  ELSE JObj([k \in {Head(keys)} |-> wrapAt(Tail(keys), x)])

\* The length of JSON.stringify of a string or of nested one-key objects.
RECURSIVE jsonLength(_)
jsonLength(x) ==
  IF x.t = "str" THEN Len(x.v) + 2
  ELSE LET k == CHOOSE k \in DOMAIN x.v : TRUE
       IN  Len(k) + 5 + jsonLength(x.v[k])

\* fs.writeFileSync(name, buffer) with the buffer's bytes.
writeBuffer(fs, name, data, size) ==
  [n \in DOMAIN fs \cup {name} |->
     IF n = name THEN [size |-> size, complete |-> TRUE, data |-> data]
                 ELSE fs[n]]

GenericConfigs ==
  LET url == [url |-> "http://tts.local/s"]
  IN  { url,
        [url |-> url.url, outputFormat |-> "wav"],
        [url |-> url.url, audioPath |-> "audio"],
        [url |-> url.url, audioPath |-> "audio", outputFormat |-> "wav"],
        [url |-> url.url, audioPath |-> "data.audio"],
        [url |-> url.url, audioPath |-> "data.audio", outputFormat |-> "wav"] }

\* The responses: audio as base64 under a path, an object without audio,
\* and text that is not JSON.
AudioPaths == {<<"audio">>, <<"data", "audio">>}

Responses ==
  { [at |-> keys, audio |-> b, json |-> wrapAt(keys, JStr(base64Encode(b)))] :
      keys \in AudioPaths, b \in ByteSeqs }
  \cup { [at |-> <<>>, audio |-> <<>>, json |-> JObj([error |-> JStr(<<>>)])],
         [at |-> <<>>, audio |-> <<>>, json |-> JUndefined] }

InitGeneric ==
  /\ options \in GenericConfigs
  /\ env = EmptyObj
  /\ onPath = {}
  /\ ttsEngine = Null
  /\ calls = <<>>
  /\ files = EmptyFs
  /\ messageQueues = [c \in Clients |-> <<>>]
  /\ crashed = FALSE
  /\ lastResult = [t \in Texts |-> NoResult]
  /\ configFile = EmptyObj
  /\ configModule = ConfigModuleInit
  /\ loopbackOutput = Null
  /\ server = ServerInit

constructGeneric ==
  /\ ttsEngine = Null
  /\ ttsEngine' = createGenericAPITTS(options)
  /\ UNCHANGED <<loopbackOutput, server, options, configFile, configModule, env, onPath, calls, files, messageQueues, crashed,
                 lastResult>>

\* synthesize(text, outputDir) answered with content type ctype and body r.
synthesizeGeneric(text, ctype, r) ==
  /\ ttsEngine /= Null
  /\ Len(calls) < MaxSynth
  /\ LET out == OutputFile(ttsEngine, text)
         c == [text |-> text, eng |-> ttsEngine, ctype |-> ctype, body |-> r]
         audioData == reducePath(r.json, splitDots(ttsEngine.audioPath))
         resolved(fs) == [outcome |-> "resolved",
                          audioUrl |-> AudioUrl(ttsEngine, text),
                          duration |-> getAudioDuration(fs, out)]
         done(fs, res) ==
           /\ files' = fs
           /\ calls' = Append(calls, [k \in DOMAIN c \cup DOMAIN res |->
                                        IF k \in DOMAIN c THEN c[k] ELSE res[k]])
     IN  IF existsSync(files, out)
           THEN done(files, resolved(files))
         ELSE IF ctype = "json"
           THEN IF audioData.t = "str" /\ audioData.v /= <<>>
                  THEN LET buf == BufferFromBase64(audioData.v)
                           fs == writeBuffer(files, out, buf, Len(buf))
                       IN  done(fs, resolved(fs))
                  ELSE \* JSON.parse throws, or 'Audio data not found'
                       done(files, [outcome |-> "rejected"])
         ELSE \* "Direct audio response": the body as it is
              LET size == IF r.json = JUndefined THEN 8 ELSE jsonLength(r.json)
                  fs == writeBuffer(files, out, r.json, size)
              IN  done(fs, resolved(fs))
  /\ UNCHANGED <<loopbackOutput, server, options, configFile, configModule, env, onPath, ttsEngine, messageQueues, crashed,
                 lastResult>>

NextGeneric ==
  \/ constructGeneric
  \/ \E text \in Texts \ {""}, ctype \in {"json", "audio"}, r \in Responses :
       synthesizeGeneric(text, ctype, r)

SpecGeneric == InitGeneric /\ [][NextGeneric]_vars

\* The server started by the command line (bin/vrm-avatar.js), with the
\* configuration file edited while it runs and the server restarted.

\* What the configuration file may hold.
ReloadFiles ==
  { [hotReload |-> TRUE, tts |-> [engine |-> "piper"]],
    [hotReload |-> TRUE, tts |-> [engine |-> "voicevox"]],
    [hotReload |-> TRUE, tts |-> [engine |-> "none"]],
    [hotReload |-> TRUE],
    [hotReload |-> FALSE, tts |-> [engine |-> "voicevox"]] }

\* startServer of bin/vrm-avatar.js: its own loadConfig reads and parses the
\* file (config.js is not involved), and the result is what createServer gets.
InitReload ==
  /\ configFile \in ReloadFiles
  /\ options = configFile
  /\ env = EmptyObj
  /\ onPath = {"piper"}
  /\ ttsEngine = Null
  /\ calls = <<>>
  /\ files = EmptyFs
  /\ messageQueues = [c \in Clients |-> <<>>]
  /\ crashed = FALSE
  /\ lastResult = [t \in Texts |-> NoResult]
  /\ configModule = ConfigModuleInit
  /\ loopbackOutput = Null
  /\ server = ServerInit

\* The file is rewritten.  When a watcher is installed its 'change' handler
\* parses the file, stores it and runs the callbacks, of which createServer's
\* is: if (newConfig.tts) ttsEngine = createTTSEngine(newConfig.tts).
configChanged(new) ==
  /\ ttsEngine /= Null
  /\ new /= configFile
  /\ configFile' = new
  /\ IF configModule.watching
       THEN /\ configModule' = [configModule EXCEPT !.config = new]
            /\ ttsEngine' = IF configModule.callbacks > 0 /\ Has(new, "tts")
                              THEN createTTSEngine(new.tts, env, onPath)
                              ELSE ttsEngine
       ELSE UNCHANGED <<configModule, ttsEngine>>
  /\ UNCHANGED <<loopbackOutput, server, options, env, onPath, calls, files, messageQueues, crashed,
                 lastResult>>

\* The process is stopped and the command line starts it again: the modules
\* are loaded afresh and the file is read; the audio directory is on disk and
\* stays (calls and lastResult are history and stay as well).
restart ==
  /\ ttsEngine /= Null
  /\ options' = configFile
  /\ ttsEngine' = Null
  /\ configModule' = ConfigModuleInit
  /\ messageQueues' = [c \in Clients |-> <<>>]
  /\ crashed' = FALSE
  /\ UNCHANGED <<loopbackOutput, server, configFile, env, onPath, calls,
                 files, lastResult>>

NextReload ==
  \/ createServer
  \/ \E new \in ReloadFiles : configChanged(new)
  \/ restart
  \/ \E route \in {"speak", "tts"}, client \in Clients, text \in Texts,
        expression \in {"", "happy"}, run \in PiperOutcomes, size \in BodySizes :
       Request(route, client, text, expression, run, size)

SpecReload == InitReload /\ [][NextReload]_vars

\* The message queues with every route that writes or reads them: calls
\* holds the control requests and the polls as well, each with its answer.
\* The engine is the no-op adapter or VOICEVOX with no engine listening, so
\* that a synthesis settles either within the request or in a later step.

\* The requests in one run, and the clients.
MaxQueueReq == 3
\* c1 is a client id that names nothing on the prototype chain; it asks
\* for speech as well.
PlainClients == {"c1"}
QueueClients == PlainClients \cup {"0", ProtoKey}

ControlRoutes == {"pose", "expression", "camera", "background", "lighting"}

\* No route checks its field.
RequiredFieldNever(route) == FALSE

\* The routes that answer 400 when their field is missing or empty:
\* if (!pose), if (!expression), if (!preset).
RequiredField(route) == route \in {"pose", "expression", "background"}

\* The message a control route queues (camera and lighting queue their
\* settings whatever they hold).
ControlMessage(route, value) ==
  CASE route = "pose" -> [pose |-> value]
    [] route = "expression" -> [expression |-> value]
    [] route = "camera" -> [camera |-> value]
    [] route = "background" -> [background |-> value]
    [] route = "lighting" -> [lighting |-> value]

\* POST /api/pose, /api/expression, /api/camera, /api/background,
\* /api/lighting.
Control(route, client, value) ==
  /\ ttsEngine /= Null
  /\ ~crashed
  /\ Len(calls) < MaxQueueReq
  /\ LET missing == RequiredField(route) /\ value = ""
         c == [NewCall(route, client, "") EXCEPT
                 !.pc = "done", !.value = value,
                 !.resp = IF missing
                            THEN [status |-> 400,
                                  error |-> IF route = "background"
                                              THEN "preset required"
                                              ELSE route \o " required"]
                          \* the TypeError reaches the default error handler
                          ELSE IF queueMessageThrows(messageQueues, client)
                            THEN [status |-> 500]
                            ELSE [status |-> 200, success |-> TRUE]]
     IN  /\ calls' = Append(calls, c)
         /\ messageQueues' =
              IF missing THEN messageQueues
              ELSE queueMessage(messageQueues, client,
                                ControlMessage(route, value))
  /\ UNCHANGED <<loopbackOutput, server, options, configFile, configModule, env, onPath, ttsEngine,
                 files, crashed, lastResult>>

\* GET /api/message: messages = messageQueues[clientId] || [];
\* messageQueues[clientId] = []; res.json({ messages }).  The answer holds
\* an array, or the object that was read in its place.
Poll(client) ==
  /\ ttsEngine /= Null
  /\ ~crashed
  /\ Len(calls) < MaxQueueReq
  /\ calls' = Append(calls,
       [NewCall("message", client, "") EXCEPT
          !.pc = "done",
          !.resp = [status |-> 200,
                    messages |-> QueueOf(messageQueues, client),
                    isArray |-> QueueKind(messageQueues, client) /= "object"]])
  /\ messageQueues' = SetQueue(messageQueues, client, <<>>)
  /\ UNCHANGED <<loopbackOutput, server, options, configFile, configModule, env, onPath, ttsEngine,
                 files, crashed, lastResult>>

InitQueue ==
  /\ options \in {[tts |-> [engine |-> "none"]],
                   [tts |-> [engine |-> "voicevox"]]}
  /\ env = EmptyObj
  /\ onPath = {}
  /\ ttsEngine = Null
  /\ calls = <<>>
  /\ files = EmptyFs
  /\ messageQueues = [c \in PlainClients |-> <<>>]
  /\ crashed = FALSE
  /\ lastResult = [t \in Texts |-> NoResult]
  /\ configFile = EmptyObj
  /\ configModule = ConfigModuleInit
  /\ loopbackOutput = Null
  /\ server = ServerInit

NextQueue ==
  \/ createServer
  \/ \E route \in {"speak", "tts"}, client \in PlainClients, text \in Texts,
        expression \in {"", "happy"}, run \in PiperOutcomes, size \in BodySizes :
       Request(route, client, text, expression, run, size)
  \/ \E route \in ControlRoutes, client \in QueueClients,
        value \in {"", "greeting"} :
       Control(route, client, value)
  \/ \E client \in QueueClients : Poll(client)
  \/ \E i \in 1..MaxQueueReq : ReqError(i)

SpecQueue == InitQueue /\ [][NextQueue]_vars

\* -------------------------------------------------------- loopback output

\* The calls of start(), the signals and the /api/status requests in one run.
MaxStarts == 2
MaxSignals == 2
MaxStatus == 1

\* new LoopbackOutput(config).  A process handle is 0 for null, or the
\* position in spawned of the child it refers to.  spawned: the children in
\* the order of the spawn calls; killed: the children kill('SIGTERM') was
\* called on, in order; starts: the calls of start(), each with the promise
\* it is awaiting; stopped: stop() has run and start() was not called since.
newLoopbackOutput ==
  [isActive |-> FALSE, xvfbProcess |-> 0, browserProcess |-> 0,
   ffmpegProcess |-> 0, spawned |-> <<>>, killed |-> <<>>, starts |-> <<>>,
   stopped |-> FALSE]

Stages == <<"initDevice", "startXvfb", "startBrowser", "startFFmpeg">>

\* The command each stage spawns.
CommandOf(stage) ==
  CASE stage = "startXvfb" -> "Xvfb"
    [] stage = "startBrowser" -> "google-chrome"
    [] stage = "startFFmpeg" -> "ffmpeg"

\* What initDevice does: `test -e` succeeds, or modprobe creates the device,
\* or modprobe fails and initDevice throws.
DeviceOutcomes == {"exists", "created", "failed"}

\* What spawn does: the child runs; or the command cannot be executed
\* (ENOENT, EACCES, ...), which spawn reports as an 'error' event on the
\* child at the next tick; or spawn itself throws (any other error).
SpawnOutcomes == {"ok", "error", "throws"}

\* stop(): isActive = false, then kill and forget ffmpeg, the browser and
\* Xvfb, each only when its handle is set.
stop(lb) ==
  LET handles == <<lb.ffmpegProcess, lb.browserProcess, lb.xvfbProcess>>
      toKill == SelectSeq(handles, LAMBDA h : h /= 0)
  IN  [lb EXCEPT !.isActive = FALSE,
                 !.ffmpegProcess = 0, !.browserProcess = 0, !.xvfbProcess = 0,
                 !.killed = @ \o toKill,
                 !.stopped = TRUE]

\* The guard of start() that never finds the output active.
alreadyActiveNever(lb) == FALSE

\* if (this.isActive) return;
alreadyActive(lb) == lb.isActive

\* start() up to its first await: it returns at once when the output is
\* active, and otherwise awaits initDevice().
callStart(lb) ==
  IF alreadyActive(lb)
    THEN [lb EXCEPT !.starts = Append(@, [pc |-> "returned", fault |-> "",
                                          begun |-> <<>>])]
    ELSE [lb EXCEPT !.starts = Append(@, [pc |-> "initDevice", fault |-> "",
                                          begun |-> <<"initDevice">>]),
                    !.stopped = FALSE]

\* The catch block of start(): await this.stop(); throw error.
catchStart(lb, k, fault) ==
  [stop(lb) EXCEPT !.starts[k].pc = "threw", !.starts[k].fault = fault]

\* The handle a stage assigns.
withHandle(lb, stage, h) ==
  CASE stage = "startXvfb" -> [lb EXCEPT !.xvfbProcess = h]
    [] stage = "startBrowser" -> [lb EXCEPT !.browserProcess = h]
    [] stage = "startFFmpeg" -> [lb EXCEPT !.ffmpegProcess = h]

\* startXvfb / startBrowser / startFFmpeg of call k up to the await of the
\* timer: the child is spawned and its handle kept.  A spawn that throws
\* leaves the handle as it was and reaches the catch block.
beginStage(lb, k, stage, outcome) ==
  IF outcome = "throws"
    THEN catchStart([lb EXCEPT !.starts[k].begun = Append(@, stage)],
                    k, "throws")
    ELSE LET child == [command |-> CommandOf(stage), by |-> k,
                       running |-> outcome = "ok"]
             h == Len(lb.spawned) + 1
         IN  [withHandle(lb, stage, h) EXCEPT
                !.spawned = Append(@, child),
                !.starts[k].pc = stage,
                !.starts[k].begun = Append(@, stage),
                !.starts[k].fault =
                   IF outcome = "error" THEN "error" ELSE @]

\* The server runs and its event loop takes the next callback.
Running == ~crashed /\ ~server.exited

\* The callback of app.listen: in loopback mode the output is created and
\* started.
Listen ==
  /\ Running
  /\ ttsEngine /= Null
  /\ ~server.listening
  /\ server' = [server EXCEPT !.listening = TRUE]
  /\ loopbackOutput' =
       IF Has(options, "output") /\ options.output = "loopback"
         THEN callStart(newLoopbackOutput)
         ELSE loopbackOutput
  /\ UNCHANGED <<options, env, onPath, ttsEngine, calls, files,
                 messageQueues, crashed, lastResult, configFile,
                 configModule>>

\* One more call of start() on the output, by whoever holds the object.
Start ==
  /\ Running
  /\ loopbackOutput /= Null
  /\ Len(loopbackOutput.starts) < MaxStarts
  /\ loopbackOutput' = callStart(loopbackOutput)
  /\ UNCHANGED <<options, env, onPath, ttsEngine, calls, files,
                 messageQueues, crashed, lastResult, configFile,
                 configModule, server>>

\* The end of a call of start() as its caller sees it: the listen callback
\* (the first call) catches the error and falls back to browser mode.
afterStart(lb, k) ==
  IF k = 1 /\ lb.starts[k].pc = "threw"
    THEN [server EXCEPT !.fallback = TRUE]
    ELSE server

\* A spawn 'error' event has no listener: the process ends with the
\* uncaught exception.
spawnFailed(lb, k) == lb.starts[k].fault = "error"

\* initDevice() of call k settles; start() goes on to startXvfb().
InitDeviceDone(k, device, outcome) ==
  /\ Running
  /\ loopbackOutput /= Null
  /\ k \in 1..Len(loopbackOutput.starts)
  /\ loopbackOutput.starts[k].pc = "initDevice"
  /\ LET lb == IF device = "failed"
                 THEN catchStart(loopbackOutput, k, "initDevice")
                 ELSE beginStage(loopbackOutput, k, "startXvfb", outcome)
     IN  /\ loopbackOutput' = lb
         /\ server' = afterStart(lb, k)
         /\ crashed' = spawnFailed(lb, k)
  /\ UNCHANGED <<options, env, onPath, ttsEngine, calls, files,
                 messageQueues, lastResult, configFile, configModule>>

\* The timer a stage of call k awaits fires; start() goes on to the next
\* stage, and after startFFmpeg() sets isActive.
TimerDone(k, outcome) ==
  /\ Running
  /\ loopbackOutput /= Null
  /\ k \in 1..Len(loopbackOutput.starts)
  /\ loopbackOutput.starts[k].pc \in {"startXvfb", "startBrowser", "startFFmpeg"}
  /\ LET pc == loopbackOutput.starts[k].pc
         lb == CASE pc = "startXvfb" ->
                      beginStage(loopbackOutput, k, "startBrowser", outcome)
                 [] pc = "startBrowser" ->
                      beginStage(loopbackOutput, k, "startFFmpeg", outcome)
                 [] pc = "startFFmpeg" ->
                      [loopbackOutput EXCEPT !.isActive = TRUE,
                                             !.starts[k].pc = "active"]
     IN  /\ loopbackOutput' = lb
         /\ server' = afterStart(lb, k)
         /\ crashed' = spawnFailed(lb, k)
  /\ UNCHANGED <<options, env, onPath, ttsEngine, calls, files,
                 messageQueues, lastResult, configFile, configModule>>

\* process.on('SIGTERM') and process.on('SIGINT'): stop the output if there
\* is one, close the server, and for SIGINT exit.  The listen callback runs
\* at the tick after createServer, before any signal is delivered.
Signal(sig) ==
  /\ Running
  /\ server.listening
  /\ server.signals < MaxSignals
  /\ loopbackOutput' =
       IF loopbackOutput /= Null THEN stop(loopbackOutput) ELSE loopbackOutput
  /\ server' = [server EXCEPT !.signals = @ + 1, !.closed = TRUE,
                              !.exited = sig = "SIGINT"]
  /\ UNCHANGED <<options, env, onPath, ttsEngine, calls, files,
                 messageQueues, crashed, lastResult, configFile,
                 configModule>>

\* loopbackOutput.getStatus() as /api/status reports it.
getStatus(lb) == [active |-> lb.isActive]

\* GET /api/status.
Status ==
  /\ Running
  /\ server.listening /\ ~server.closed
  /\ server.answered < MaxStatus
  /\ server' =
       [server EXCEPT
          !.answered = @ + 1,
          !.status =
             LET base == [status |-> "running",
                          output |-> IF Has(options, "output")
                                       THEN options.output ELSE "browser"]
             IN  IF loopbackOutput /= Null
                   THEN [status |-> base.status, output |-> base.output,
                         loopback |-> getStatus(loopbackOutput)]
                   ELSE base]
  /\ UNCHANGED <<options, env, onPath, ttsEngine, calls, files,
                 messageQueues, crashed, lastResult, configFile,
                 configModule, loopbackOutput>>

InitLoopback ==
  /\ options \in {[tts |-> [engine |-> "none"], output |-> "loopback"],
                   [tts |-> [engine |-> "none"]]}
  /\ env = EmptyObj
  /\ onPath = {}
  /\ ttsEngine = Null
  /\ calls = <<>>
  /\ files = EmptyFs
  /\ messageQueues = [c \in Clients |-> <<>>]
  /\ crashed = FALSE
  /\ lastResult = [t \in Texts |-> NoResult]
  /\ configFile = EmptyObj
  /\ configModule = ConfigModuleInit
  /\ loopbackOutput = Null
  /\ server = ServerInit

NextLoopback ==
  \/ createServer
  \/ Listen
  \/ Start
  \/ \E k \in 1..MaxStarts, device \in DeviceOutcomes,
        outcome \in SpawnOutcomes :
       InitDeviceDone(k, device, outcome)
  \/ \E k \in 1..MaxStarts, outcome \in SpawnOutcomes : TimerDone(k, outcome)
  \/ \E sig \in {"SIGTERM", "SIGINT"} : Signal(sig)
  \/ Status

SpecLoopback == InitLoopback /\ [][NextLoopback]_vars

\* ------------------------------------------------ the config module alone

\* config.js used through its exports: loadConfig, watchConfig,
\* onConfigChange, and the watcher's 'change' handler.  configFile is what
\* is on disk at configPath.

\* The callbacks registered and the 'change' events in one run.
MaxCallbacks == 3
MaxChanges == 2

\* What may be on disk: a JSON text (v: the value JSON.parse gives), a text
\* that is not JSON, or no readable file.
WatchFiles ==
  { [t |-> "json", v |-> [hotReload |-> TRUE]],
    [t |-> "json", v |-> [hotReload |-> TRUE, tts |-> [engine |-> "none"]]],
    [t |-> "json", v |-> [hotReload |-> FALSE]],
    [t |-> "text", v |-> EmptyObj],
    [t |-> "missing", v |-> EmptyObj] }

\* JSON.parse(fs.readFileSync(configPath, 'utf-8')) throws.
readThrows(content) == content.t /= "json"

\* What a callback does when it is called: it returns or it throws.
CallbackKinds == {"returns", "throws"}

\* The module with the order of its callbacks (onChangeCallbacks), the calls
\* made to them (invoked), and the 'change' events handled.
WatchModuleInit ==
  [configPath |-> "", config |-> EmptyObj, watching |-> FALSE, callbacks |-> 0,
   onChangeCallbacks |-> <<>>, invoked |-> <<>>, events |-> 0]

\* forEach that leaves the loop at the first callback that throws.
notifyCallbacksAbort(cbs, cfg) ==
  LET firstThrow == IF \E n \in 1..Len(cbs) : cbs[n] = "throws"
                      THEN CHOOSE n \in 1..Len(cbs) :
                             /\ cbs[n] = "throws"
                             /\ \A k \in 1..(n - 1) : cbs[k] /= "throws"
                      ELSE Len(cbs)
  IN  [n \in 1..firstThrow |-> [callback |-> n, config |-> cfg]]

\* onChangeCallbacks.forEach(cb => { try { cb(config) } catch ... }): the
\* calls made, in order.
notifyCallbacks(cbs, cfg) ==
  [n \in 1..Len(cbs) |-> [callback |-> n, config |-> cfg]]

\* The watcher's 'change' handler.
onChange(m, content) ==
  IF readThrows(content)
    THEN [m EXCEPT !.events = @ + 1]
    ELSE [m EXCEPT !.events = @ + 1,
                   !.config = content.v,
                   !.invoked = @ \o notifyCallbacks(m.onChangeCallbacks,
                                                    content.v)]

\* loadConfig(filePath): configPath is set; config only when the file parses.
loadConfig ==
  /\ configModule.configPath = ""
  /\ configModule' =
       [configModule EXCEPT
          !.configPath = "config.json",
          !.config = IF readThrows(configFile) THEN @ ELSE configFile.v]
  /\ UNCHANGED <<options, env, onPath, ttsEngine, calls, files,
                 messageQueues, crashed, lastResult, configFile,
                 loopbackOutput, server>>

\* watchConfig(), called once as createServer does.
WatchConfig ==
  /\ ~configModule.watching
  /\ configModule' = watchConfig(configModule)
  /\ configModule' /= configModule
  /\ UNCHANGED <<options, env, onPath, ttsEngine, calls, files,
                 messageQueues, crashed, lastResult, configFile,
                 loopbackOutput, server>>

\* onConfigChange(callback).
OnConfigChange(kind) ==
  /\ Len(configModule.onChangeCallbacks) < MaxCallbacks
  /\ configModule' =
       [onConfigChange(configModule) EXCEPT
          !.onChangeCallbacks = Append(@, kind)]
  /\ UNCHANGED <<options, env, onPath, ttsEngine, calls, files,
                 messageQueues, crashed, lastResult, configFile,
                 loopbackOutput, server>>

\* The file is rewritten (or removed and written again); a watcher, when
\* there is one, runs its 'change' handler.
FileChanged(content) ==
  /\ configModule.events < MaxChanges
  /\ configFile' = content
  /\ configModule' = IF configModule.watching
                        THEN onChange(configModule, content)
                        ELSE [configModule EXCEPT !.events = @ + 1]
  /\ UNCHANGED <<options, env, onPath, ttsEngine, calls, files,
                 messageQueues, crashed, lastResult, loopbackOutput, server>>

InitWatch ==
  /\ configFile \in WatchFiles
  /\ options = EmptyObj
  /\ env = EmptyObj
  /\ onPath = {}
  /\ ttsEngine = Null
  /\ calls = <<>>
  /\ files = EmptyFs
  /\ messageQueues = [c \in Clients |-> <<>>]
  /\ crashed = FALSE
  /\ lastResult = [t \in Texts |-> NoResult]
  /\ configModule = WatchModuleInit
  /\ loopbackOutput = Null
  /\ server = ServerInit

NextWatch ==
  \/ loadConfig
  \/ WatchConfig
  \/ \E kind \in CallbackKinds : OnConfigChange(kind)
  \/ \E content \in WatchFiles : FileChanged(content)

SpecWatch == InitWatch /\ [][NextWatch]_vars

\* ================================================================== claims

Settled(c) == c.pc = "done" /\ c.outcome /= "none"

HostedNames == {"openai", "google", "azure", "generic-api"}

C2_TransportErrorRejects ==
  \A i \in 1..Len(calls) :
    LET c == calls[i]
    IN  (c.eng.name \in HostedNames /\ c.fault /= "") =>
          /\ c.outcome /= "resolved"
          /\ c.pc /= "threw"
          /\ c.io = 1
          /\ ~c.wrote

\* C3: no failure of the TTS subsystem is fatal or silent: the process never
\* dies of it, and no request is left with a promise that nothing can settle
\* any more (such a request is never answered).
C3_NeverFatalNeverSilent ==
  /\ ~crashed
  /\ \A i \in 1..Len(calls) : calls[i].pc \notin {"stalled", "threw"}

\* C4: for every adapter, of two consecutive synthesize calls for the same
\* text the second returns the audioUrl the first returned and makes no
\* network request and starts no process.
C4_SecondCallFromCache ==
  \A i \in 1..Len(calls) :
    LET c == calls[i]
    IN  (Settled(c) /\ c.prev /= NoResult) =>
          /\ c.prev.outcome = "resolved"
          /\ c.outcome = "resolved"
          /\ c.result.audioUrl = c.prev.audioUrl
          /\ c.io = 0

\* C5: no file of the audio directory is ever partially written while it is
\* visible under its canonical name.
C5_NoPartialFileVisible ==
  \A n \in DOMAIN files : files[n].complete

\* C6: whenever synthesize has resolved with a non-null audioUrl, the file it
\* names is in the audio directory, and the name is '/audio/<key>.<ext>' with
\* <key> the hash of the call's text under the adapter's configuration.
C6_ResolvedFileExists ==
  \A i \in 1..Len(calls) :
    LET c == calls[i]
    IN  (c.outcome = "resolved" /\ c.result.audioUrl /= NullUrl) =>
          /\ \E n \in DOMAIN files : c.result.audioUrl = "/audio/" \o n
          /\ c.result.audioUrl =
               "/audio/" \o Hash(c.eng, c.text) \o "." \o Ext(c.eng)

C6_Witness ==
  \E i \in 1..Len(calls) :
    /\ calls[i].outcome = "resolved"
    /\ calls[i].result.audioUrl /= NullUrl
    /\ calls[i].wrote
    /\ calls[i].eng.name = "generic-api"

\* C7: every synthesis result delivered to a caller, resolved by an adapter
\* or built by the route's fallback, has a duration that is a positive whole
\* number of milliseconds, and its audioUrl is non-null only when there is
\* audio for the call in the audio directory.
C7_ResultShape ==
  \A i \in 1..Len(calls) :
    LET c == calls[i]
    IN  /\ c.outcome = "resolved" =>
             /\ c.result.duration.frac3 = 0
             /\ c.result.duration.ms > 0
             /\ c.result.audioUrl /= NullUrl =>
                  OutputFile(c.eng, c.text) \in DOMAIN files
        /\ c.outcome = "rejected" =>
             /\ c.resp.duration.frac3 = 0
             /\ c.resp.duration.ms > 0

\* C8: a synthesize call on the Disabled adapter is settled at once, resolved
\* with {audioUrl: null, duration: estimate(text)}, without a network request
\* or a process, and the step leaves the audio directory as it was.
C8_DisabledIsNoOp ==
  [][ \A i \in 1..Len(calls') :
        (i > Len(calls) /\ calls'[i].eng.name = "none"
           /\ calls'[i].text /= "") =>
          /\ calls'[i].pc = "done"
          /\ calls'[i].outcome = "resolved"
          /\ calls'[i].result =
               [audioUrl |-> NullUrl, duration |-> EstimateMs(Len(calls'[i].text))]
          /\ calls'[i].io = 0
          /\ files' = files
          /\ crashed' = crashed ]_vars

C8_Witness ==
  \E i \in 1..Len(calls) :
    /\ calls[i].eng = [name |-> "none", module |-> "index"]
    /\ calls[i].text = "hello!!"
    /\ calls[i].outcome = "resolved"

\* The engine tag of the configuration value, "" when there is none.
TagOf(config) == IF Truthy(config, "engine") THEN config.engine ELSE ""

\* C9: createTTSEngine never throws; each known tag gives the adapter its own
\* constructor builds from config[tag], or from {} when that is absent; an
\* unknown or absent tag gives the Disabled adapter.
C9_FactoryDispatch ==
  ttsEngine /= Null =>
    LET tag == TagOf(options)
        nested == IF tag /= "" /\ Has(options, tag) THEN options[tag]
                                                    ELSE EmptyObj
    IN  /\ ttsEngine /= TypeErrorThrown
        /\ tag = "piper" => ttsEngine = createPiperTTS(nested, onPath)
        /\ tag = "voicevox" => ttsEngine = createVoicevoxTTS(nested)
        /\ tag = "openai" => ttsEngine = createOpenAITTS(nested, env)
        /\ tag = "google" => ttsEngine = createGoogleTTS(nested, env)
        /\ tag = "azure" => ttsEngine = createAzureTTS(nested, env)
        /\ tag = "api" => ttsEngine = createGenericAPITTS(nested)
        /\ tag = "custom" => ttsEngine = createCustomTTS(nested)
        /\ tag \notin {"piper", "voicevox", "openai", "google", "azure", "api",
                       "custom"} => ttsEngine.name = "none"

C9_Witness ==
  /\ options = [engine |-> "voicevox"]
  /\ ttsEngine /= Null
  /\ ttsEngine.name = "voicevox"

\* The active adapter was constructed without its prerequisite: a hosted,
\* generic or custom tag that gave the no-op adapter, or piper not found.
PrerequisiteMissing(eng) ==
  \/ eng.name = "none"
       /\ Has(options, "tts")
       /\ TagOf(options.tts) \in {"openai", "google", "azure", "api", "custom"}
  \/ eng.name = "piper" /\ ~eng.available

\* C10: an adapter constructed without its prerequisite does not throw at
\* construction and behaves as the Disabled adapter: every synthesize call
\* resolves with null audio and estimate(text), with no network request and
\* no process.
C10_MissingPrerequisiteIsDisabled ==
  /\ ttsEngine /= TypeErrorThrown
  /\ \A i \in 1..Len(calls) :
       LET c == calls[i]
       IN  (c.text /= "" /\ PrerequisiteMissing(c.eng)) =>
             /\ c.pc = "done"
             /\ c.outcome = "resolved"
             /\ c.result = [audioUrl |-> NullUrl,
                            duration |-> EstimateMs(Len(c.text))]
             /\ c.io = 0

\* A duration in thirds of a millisecond.
Thirds(d) == 3 * d.ms + d.frac3

\* max(500, round(1000 * n / 12)), Math.round rounding halves up.
RoundedEstimate(n) ==
  LET r == (2 * 1000 * n + 12) \div 24
  IN  IF r < 500 THEN 500 ELSE r

\* C11 (as stated): every copy of estimateDuration returns, for every text,
\* the whole number max(500, round(1000 * len(text) / 12)).
C11_EstimateIsRounded ==
  \A i \in 1..Len(calls) :
    calls[i].duration = [ms |-> RoundedEstimate(Len(calls[i].text)),
                         frac3 |-> 0]

\* C12: every estimate is at least 500 ms, and a text that is no longer than
\* another gets an estimate that is no larger.
C12_EstimateFloorAndMonotone ==
  /\ \A i \in 1..Len(calls) : Thirds(calls[i].duration) >= 3 * 500
  /\ \A i, j \in 1..Len(calls) :
       Len(calls[i].text) <= Len(calls[j].text)
         => Thirds(calls[i].duration) <= Thirds(calls[j].duration)

\* Two estimates of tts/index.js, one at the floor for a short text and one
\* above it for a longer text.
C12_Witness ==
  /\ Len(calls) = 2
  /\ calls[1].fn = "index" /\ calls[2].fn = "index"
  /\ Len(calls[1].text) = 3 /\ Len(calls[2].text) = 7
  /\ Thirds(calls[1].duration) < Thirds(calls[2].duration)

CallsOf(names) ==
  {i \in 1..Len(calls) : calls[i].text /= "" /\ calls[i].eng.name \in names}

\* C14 (as stated): a Piper call never rejects, and whenever the executable
\* was not found at construction, or the process failed, timed out or left no
\* file, it resolves with null audio and estimate(text).
C14_PiperFailureDegrades ==
  \A i \in CallsOf({"piper"}) :
    LET c == calls[i]
    IN  /\ c.pc = "done" /\ c.outcome = "resolved"
        /\ (~c.eng.available \/ (c.io = 1 /\ ~c.wrote))
             => c.result = Degraded(c.text, EstimateMs(Len(c.text)))

\* C15 (as stated): a VOICEVOX call never rejects, and when the audio_query
\* or the synthesis step failed (error status, unusable body) it resolves
\* with null audio and estimate(text) and has written nothing.
C15_VoicevoxFailureDegrades ==
  \A i \in CallsOf({"voicevox"}) :
    LET c == calls[i]
    IN  c.pc = "done" =>
          /\ c.outcome = "resolved"
          /\ c.fault /= "" =>
                /\ c.result = Degraded(c.text, EstimateMs(Len(c.text)))
                /\ ~c.wrote

\* C16 (as stated): whatever audio_query answered, the body sent to synthesis
\* carries the pitchScale, speedScale and intonationScale of the adapter's
\* configuration.
C16_SynthesisCarriesConfig ==
  \A i \in CallsOf({"voicevox"}) :
    LET c == calls[i]
    IN  c.sent /= NoResult =>
          /\ Has(c.sent, "pitchScale") /\ c.sent.pitchScale = c.eng.pitchScale
          /\ Has(c.sent, "speedScale") /\ c.sent.speedScale = c.eng.speedScale
          /\ Has(c.sent, "intonationScale")
          /\ c.sent.intonationScale = c.eng.intonationScale

\* C17 (as stated): a VOICEVOX call issues at most one audio_query and one
\* synthesis request, the synthesis only after the query has been answered
\* and never when the query failed, and neither of them on a cache hit.
C17_VoicevoxOrder ==
  \A i \in CallsOf({"voicevox"}) :
    LET c == calls[i]
    IN  /\ c.io <= 2
        /\ (c.io = 2) = (c.sent /= NoResult)
        /\ c.sent /= NoResult =>
              /\ c.query /= NoResult
              /\ c.query.status = 200
              /\ ~Has(c.query.result, "raw")
        /\ (c.pc = "done" /\ c.result.audioUrl /= NullUrl /\ ~c.wrote)
             => c.io = 0

\* C18 (as stated): a call of the user-defined command adapter executes the
\* command, and resolves with '/audio/<md5(text)>.wav' and estimate(text)
\* unless the command fails.
C18_CustomRunsCommand ==
  \A i \in CallsOf({"custom"}) :
    LET c == calls[i]
    IN  c.pc = "done" =>
          /\ c.io = 1
          /\ c.outcome = "resolved" =>
                c.result = [audioUrl |-> AudioUrl(c.eng, c.text),
                            duration |-> EstimateMs(Len(c.text))]

\* C20: two calls of one adapter with the same text use the same identifier
\* and the same file, whatever happened between them and whatever the cache
\* held; two calls with different texts use different identifiers.
C20_CacheKeysPure ==
  \A i, j \in CallsOf({"piper", "voicevox", "custom"} \cup HostedNames) :
    LET c == calls[i]
        d == calls[j]
    IN  /\ (c.text = d.text) = (c.key = d.key)
        /\ (c.pc = "done" /\ c.outcome = "resolved"
             /\ c.result.audioUrl /= NullUrl)
             => c.result.audioUrl = "/audio/" \o c.key \o "." \o Ext(c.eng)

\* The same text twice on a hosted adapter: the first call wrote the file,
\* the second found it, and both name the same file.
C20_Witness ==
  /\ Len(calls) = 2
  /\ calls[1].eng.name \in HostedNames
  /\ calls[1].text = calls[2].text /\ calls[1].key = calls[2].key
  /\ calls[1].pc = "done" /\ calls[1].wrote
  /\ calls[2].pc = "done" /\ ~calls[2].wrote /\ calls[2].outcome = "resolved"
  /\ calls[1].result = calls[2].result

\* C19: when the response is JSON and holds base64 audio at the configured
\* dotted path ("audio" unless configured), the file written holds exactly
\* the decoded bytes, and the audioUrl is '/audio/<key>.<outputFormat>'.
C19_GenericWritesDecodedAudio ==
  \A i \in 1..Len(calls) :
    LET c == calls[i]
        format == OrElse(options, "outputFormat", "mp3")
        name == c.text \o options.url \o "." \o format
    IN  (c.ctype = "json" /\ c.body.audio /= <<>>
         /\ c.body.at = splitDots(OrElse(options, "audioPath", "audio")))
          => /\ c.outcome = "resolved"
             /\ c.audioUrl = "/audio/" \o name
             /\ name \in DOMAIN files
             /\ files[name].data = c.body.audio

\* Three bytes of audio under data.audio, written to a .wav file.
C19_Witness ==
  /\ Len(calls) = 1
  /\ calls[1].ctype = "json"
  /\ calls[1].body.at = <<"data", "audio">>
  /\ calls[1].body.audio = <<65, 0, 255>>
  /\ calls[1].outcome = "resolved"
  /\ calls[1].audioUrl = "/audio/hihttp://tts.local/s.wav"

\* The durations getAudioDuration gives for the audio files of the model.
FileDurations ==
  {[ms |-> (2 * size + 16) \div 32, frac3 |-> 0] : size \in BodySizes}

\* C21 (as stated): a call that resolves with an audio file has the duration
\* of that file's size at 16000 bytes per second; a call without audio has
\* the estimate of its text.
C21_DurationFromFileSize ==
  \A i \in CallsOf({"none", "piper", "voicevox", "custom"} \cup HostedNames) :
    LET c == calls[i]
    IN  (c.pc = "done" /\ c.outcome = "resolved") =>
          IF c.result.audioUrl /= NullUrl
            THEN c.result.duration \in FileDurations
            ELSE c.result.duration = EstimateMs(Len(c.text))

\* The /api/speak calls of a client that passed validation.
SpeakCalls(client) ==
  {i \in 1..Len(calls) : /\ calls[i].route = "speak"
                          /\ calls[i].client = client
                          /\ calls[i].text /= ""}

\* The positions of a client's queue that hold a speech message for a text,
\* and those that hold an expression message.
SpeechAt(client, text) ==
  {k \in 1..Len(messageQueues[client]) :
     LET m == messageQueues[client][k] IN Has(m, "text") /\ m.text = text}

ExpressionAt(client) ==
  {k \in 1..Len(messageQueues[client]) :
     Has(messageQueues[client][k], "expression")}

C28_SpeechInRequestOrder ==
  \A client \in Clients :
    \A i, j \in SpeakCalls(client) :
      (i < j /\ calls[i].text /= calls[j].text) =>
        \A q \in SpeechAt(client, calls[j].text) :
          \E p \in SpeechAt(client, calls[i].text) : p < q

\* C29 (as stated): every /api/speak request that passed validation queues
\* one speech message, never none -- so none is left with a synthesis that
\* can no longer settle -- and never two.
C29_OneSpeechMessagePerRequest ==
  \A client \in Clients :
    /\ \A i \in SpeakCalls(client) : calls[i].pc \notin {"stalled", "threw"}
    /\ Cardinality({k \in 1..Len(messageQueues[client]) :
                      Has(messageQueues[client][k], "text")})
         = Cardinality({i \in SpeakCalls(client) : calls[i].pc = "done"})

\* The adapters whose synthesize suspends on the network.
AsyncNames == HostedNames \cup {"voicevox"}

\* C24 (as stated): when two requests for the same uncached text both missed
\* the cache, both synthesized and both wrote the file, they receive the same
\* audioUrl and the file holds the complete bytes of the one that wrote last.
C24_RaceKeepsLastWriter ==
  \A i, j \in CallsOf(AsyncNames) :
    LET c == calls[i]
        d == calls[j]
        out == OutputFile(c.eng, c.text)
    IN  (/\ i < j /\ c.text = d.text
         /\ c.pc = "done" /\ c.outcome = "resolved" /\ c.wrote
         /\ d.pc = "done" /\ d.outcome = "resolved" /\ d.wrote)
          => /\ c.result.audioUrl = d.result.audioUrl
             /\ out \in DOMAIN files
             /\ files[out].complete
             /\ files[out].size = calls[lastResult[c.text].by].body

\* C22 (as stated): in a server started by the command line with hotReload,
\* once the configuration file has changed the adapter that serves requests
\* is the one createTTSEngine builds from the file's tts section.
C22_ReloadReplacesAdapter ==
  (ttsEngine /= Null /\ IsTrue(options, "hotReload") /\ configFile /= options)
    => ttsEngine = createTTSEngine(Prop(configFile, "tts"), env, onPath)

\* C23 (as stated): an adapter returns an audioUrl for a text only if that
\* adapter itself wrote the audio for the text, whatever another engine
\* configured before it left in the audio directory.
C23_NoAudioFromOtherEngine ==
  \A i \in 1..Len(calls) :
    LET c == calls[i]
    IN  (c.pc = "done" /\ c.outcome = "resolved"
         /\ c.result.audioUrl /= NullUrl)
          => \E j \in 1..i : /\ calls[j].eng = c.eng
                              /\ calls[j].text = c.text
                              /\ calls[j].wrote

\* The messages the polls of a client have returned so far, in order.
RECURSIVE DeliveredIn(_, _)
DeliveredIn(cs, client) ==
  IF cs = <<>> THEN <<>>
  ELSE LET e == cs[Len(cs)]
           before == DeliveredIn(SubSeq(cs, 1, Len(cs) - 1), client)
       IN  IF e.route = "message" /\ e.client = client
             THEN before \o e.resp.messages
             ELSE before

\* The request a step has just received, if it received one.
Received ==
  IF Len(calls') = Len(calls) + 1 THEN {calls'[Len(calls')]} ELSE {}

\* The messages the arrays of messageQueues hold, and the messages the
\* polls have returned.
RECURSIVE Stored(_, _)
Stored(q, ids) ==
  IF ids = {} THEN 0
  ELSE LET c == CHOOSE c \in ids : TRUE
       IN  Len(q[c]) + Stored(q, ids \ {c})

RECURSIVE Returned(_)
Returned(cs) ==
  IF cs = <<>> THEN 0
  ELSE LET e == cs[Len(cs)]
       IN  Returned(SubSeq(cs, 1, Len(cs) - 1))
             + (IF e.route = "message" THEN Len(e.resp.messages) ELSE 0)

\* C25: a poll answers with the client's queued messages, in
\* order, and empties the queue; what has been delivered to a client
\* followed by what is queued for it only ever grows at its end, and a poll
\* moves messages from the queues to its answer without copying or
\* dropping any: every queued message reaches exactly one poll.
C25_PollDeliversOnce ==
  [][\A client \in QueueClients :
       LET old == DeliveredIn(calls, client) \o QueueOf(messageQueues, client)
           new == DeliveredIn(calls', client)
                    \o QueueOf(messageQueues', client)
       IN  /\ Len(new) >= Len(old)
           /\ SubSeq(new, 1, Len(old)) = old
           /\ \A e \in Received :
                (e.route = "message" /\ e.client = client)
                  => /\ e.resp.messages = QueueOf(messageQueues, client)
                     /\ QueueOf(messageQueues', client) = <<>>
                     /\ Returned(calls') + Stored(messageQueues',
                                                  DOMAIN messageQueues')
                          = Returned(calls) + Stored(messageQueues,
                                                     DOMAIN messageQueues)]_vars

\* A request that lacks its required field.
MissingField(e) ==
  \/ e.route \in {"speak", "tts"} /\ e.text = ""
  \/ e.route \in {"pose", "expression", "background"} /\ e.value = ""

\* C26: a request without its required field (or with an empty one) is
\* answered 400 and changes nothing: no queue, no file, no call of the
\* engine.
C26_MissingFieldIs400 ==
  [][\A e \in Received :
       MissingField(e)
         => /\ e.resp.status = 400
            /\ e.pc = "done" /\ e.io = 0 /\ e.outcome = "none"
            /\ UNCHANGED <<messageQueues, files, ttsEngine, lastResult>>]_vars

\* A pose request without a pose after a pose request that was queued.
C26_Witness ==
  /\ Len(calls) = 2
  /\ calls[1].route = "pose" /\ calls[1].resp.status = 200
  /\ calls[2].route = "pose" /\ calls[2].value = ""
  /\ calls[2].client = calls[1].client
  /\ calls[2].resp.status = 400
  /\ Len(QueueOf(messageQueues, calls[1].client)) = 1

\* C30: a step changes what a client's queue holds only if it receives a
\* request of that client, or continues one, and never for a /api/tts
\* request.
C30_QueuesIsolated ==
  [][\A client \in QueueClients :
       QueueOf(messageQueues', client) /= QueueOf(messageQueues, client)
         => \E i \in 1..Len(calls') :
              /\ calls'[i].client = client
              /\ calls'[i].route /= "tts"
              /\ (i > Len(calls) \/ calls'[i] /= calls[i])]_vars

\* The piper calls of a run.
PiperCalls == {i \in 1..Len(calls) : calls[i].eng.name = "piper"}

\* The call ran the piper executable, which wrote its file.
PiperGenerated(c) == c.io = 1 /\ c.wrote

\* C31: a piper synthesis is one step: no piper call is ever found between
\* its cache check and its result, and after a call that ran the executable
\* and got its file, no later call for the same text runs it again: it is
\* answered with the same file.
C31_PiperIsAtomic ==
  /\ \A i \in PiperCalls : calls[i].pc = "done"
  /\ \A i \in PiperCalls, j \in PiperCalls :
       (i < j /\ calls[i].text = calls[j].text /\ PiperGenerated(calls[i]))
         => /\ calls[j].io = 0
            /\ calls[j].result.audioUrl = calls[i].result.audioUrl

\* Two requests for one uncached text: the first ran piper, the second was
\* answered from the file.
C31_Witness ==
  /\ Len(calls) = 2
  /\ PiperCalls = {1, 2}
  /\ calls[1].text = calls[2].text
  /\ PiperGenerated(calls[1])
  /\ calls[2].io = 0
  /\ calls[2].result.audioUrl /= NullUrl

IsPrefix(a, b) == Len(a) <= Len(b) /\ a = SubSeq(b, 1, Len(a))

\* The commands call k of start() has spawned, in order.
SpawnedBy(lb, k) ==
  LET mine == SelectSeq(lb.spawned, LAMBDA child : child.by = k)
  IN  [n \in 1..Len(mine) |-> mine[n].command]

\* C32: a call of start() begins its stages in the order device check, Xvfb,
\* browser, FFmpeg, each in the step in which the stage before it returned;
\* isActive becomes true only in a call that has spawned all three
\* processes; and a call made while isActive is true spawns nothing and
\* changes no field of the output.
C32_StartOrder ==
  [][loopbackOutput' /= Null =>
       LET new == loopbackOutput'
       IN  /\ \A k \in 1..Len(new.starts) :
                /\ IsPrefix(new.starts[k].begun, Stages)
                /\ IsPrefix(SpawnedBy(new, k),
                            <<"Xvfb", "google-chrome", "ffmpeg">>)
                /\ (/\ loopbackOutput /= Null
                    /\ k \in 1..Len(loopbackOutput.starts)
                    /\ new.starts[k].begun /= loopbackOutput.starts[k].begun)
                     => LET old == loopbackOutput.starts[k]
                        IN  /\ Len(new.starts[k].begun) = Len(old.begun) + 1
                            /\ old.pc = Stages[Len(old.begun)]
           /\ (new.isActive /\ loopbackOutput /= Null
                 /\ ~loopbackOutput.isActive)
                => \E k \in 1..Len(new.starts) :
                     /\ new.starts[k].pc = "active"
                     /\ loopbackOutput.starts[k].pc = "startFFmpeg"
                     /\ Len(SpawnedBy(loopbackOutput, k)) = 3
           /\ (/\ loopbackOutput /= Null
               /\ loopbackOutput.isActive
               /\ Len(new.starts) = Len(loopbackOutput.starts) + 1)
                => /\ new.starts[Len(new.starts)].pc = "returned"
                   /\ new = [loopbackOutput EXCEPT
                               !.starts = Append(@, new.starts[Len(new.starts)])]
      ]_vars

\* The output is active after a call that went through the four stages, and
\* a second call has returned at once.
C32_Witness ==
  /\ loopbackOutput /= Null
  /\ Len(loopbackOutput.starts) = 2
  /\ loopbackOutput.starts[1].pc = "active"
  /\ loopbackOutput.starts[1].begun = Stages
  /\ loopbackOutput.starts[2].pc = "returned"
  /\ loopbackOutput.isActive
  /\ Len(loopbackOutput.spawned) = 3

\* C33: whenever the output is active, its three process handles are set.
C33_ActiveHasHandles ==
  (loopbackOutput /= Null /\ loopbackOutput.isActive)
    => /\ loopbackOutput.xvfbProcess /= 0
       /\ loopbackOutput.browserProcess /= 0
       /\ loopbackOutput.ffmpegProcess /= 0

\* No call of start() is still awaiting a stage.
NoPendingStart(lb) ==
  \A k \in 1..Len(lb.starts) : lb.starts[k].pc \in {"active", "threw", "returned"}

\* C34: once stop() has run, start() has not been called since and every
\* call of start() has finished, the output is inactive, holds no handle,
\* and every process it ever spawned has been sent SIGTERM.
C34_StopKillsEverything ==
  (/\ loopbackOutput /= Null
   /\ loopbackOutput.stopped
   /\ NoPendingStart(loopbackOutput))
    => /\ ~loopbackOutput.isActive
       /\ loopbackOutput.xvfbProcess = 0
       /\ loopbackOutput.browserProcess = 0
       /\ loopbackOutput.ffmpegProcess = 0
       /\ \A h \in 1..Len(loopbackOutput.spawned) :
            \E n \in 1..Len(loopbackOutput.killed) :
              loopbackOutput.killed[n] = h

\* C35: when a stage of start() fails, the call ends by throwing after
\* stop() has run (the output inactive, no handle kept), and the server
\* goes on: the process lives, and the listen callback has fallen back to
\* browser mode.
C35_FailedStartFallsBack ==
  [][\A k \in 1..MaxStarts :
       (/\ loopbackOutput /= Null
        /\ k \in 1..Len(loopbackOutput.starts)
        /\ loopbackOutput.starts[k].fault = ""
        /\ loopbackOutput'.starts[k].fault /= "")
         => /\ loopbackOutput'.starts[k].pc = "threw"
            /\ ~loopbackOutput'.isActive
            /\ loopbackOutput'.xvfbProcess = 0
            /\ loopbackOutput'.browserProcess = 0
            /\ loopbackOutput'.ffmpegProcess = 0
            /\ ~crashed'
            /\ k = 1 => server'.fallback]_vars

\* C36: when a 'change' is handled and the file cannot be read or parsed,
\* the config stays and no callback is called; when it parses, the config is
\* the parsed value and every registered callback is called once with it, in
\* the order of registration, whether or not some of them throw.
C36_ReloadNotifiesAll ==
  [][(configModule.watching /\ configModule'.events = configModule.events + 1)
       => IF readThrows(configFile')
            THEN /\ configModule'.config = configModule.config
                 /\ configModule'.invoked = configModule.invoked
            ELSE /\ configModule'.config = configFile'.v
                 /\ Len(configModule'.invoked)
                      = Len(configModule.invoked)
                          + Len(configModule.onChangeCallbacks)
                 /\ \A n \in 1..Len(configModule.onChangeCallbacks) :
                      configModule'.invoked[Len(configModule.invoked) + n]
                        = [callback |-> n, config |-> configFile'.v]]_vars

\* A reload called a throwing callback and then a returning one, and the
\* next change, which does not parse, left that config in place.
C36_Witness ==
  /\ configModule.watching
  /\ configModule.events = 2
  /\ Len(configModule.onChangeCallbacks) >= 2
  /\ configModule.onChangeCallbacks[1] = "throws"
  /\ configModule.onChangeCallbacks[2] = "returns"
  /\ Len(configModule.invoked) = Len(configModule.onChangeCallbacks)
  /\ readThrows(configFile)
  /\ configModule.config = configModule.invoked[2].config
  /\ Has(configModule.config, "tts")

====
